---- MODULE Spec2Model ----
(***************************************************************************)
(* Selective synchronisation engine of business-management-stock:          *)
(* the content hash of a product (src/models/product.py), the embedding    *)
(* sync run and the deletion reconciler (src/pipelines/                    *)
(* postgres_to_qdrant.py), the batch embedder (src/embeddings/             *)
(* generator.py) and the vector-index writer (src/loaders/                 *)
(* qdrant_loader.py), over a relational store with upsert-by-sku           *)
(* (src/loaders/postgres_loader.py).                                       *)
(*                                                                         *)
(* Strings are sequences of one-character strings, so that the '|' and     *)
(* ':' delimiters of the hash input are characters like any other.         *)
(***************************************************************************)
EXTENDS Integers, Sequences, FiniteSets, TLC

(***************************************************************************)
(* Values                                                                  *)
(***************************************************************************)

\* Optional[str]: Python None, or a string
None == [isNone |-> TRUE]
Some(s) == [isNone |-> FALSE, s |-> s]

\* attribute values (JSON): a string, or something that is not a string
StrVal(s) == [kind |-> "str", s |-> s]
IntVal(n) == [kind |-> "int", n |-> n]
IsStr(v) == v.kind = "str"

\* the code points of the characters the model uses
CharRank(c) ==
  CASE c = ":" -> 58
    [] c = "A" -> 65
    [] c = "B" -> 66
    [] c = "C" -> 67
    [] c = "a" -> 97
    [] c = "b" -> 98
    [] c = "c" -> 99
    [] c = "d" -> 100
    [] c = "|" -> 124
    [] OTHER -> 200

\* Python's str.__le__: lexicographic by code point, a proper prefix is smaller
RECURSIVE LexLeq(_, _)
LexLeq(a, b) ==
  IF a = <<>> THEN TRUE
  ELSE IF b = <<>> THEN FALSE
  ELSE IF Head(a) = Head(b) THEN LexLeq(Tail(a), Tail(b))
  ELSE CharRank(Head(a)) < CharRank(Head(b))

\* sorted(attributes.items()): the keys of a dict are distinct, so the items
\* are ordered by key
RECURSIVE SortedKeys(_)
SortedKeys(S) ==
  IF S = {} THEN <<>>
  ELSE LET m == CHOOSE k \in S : \A j \in S : LexLeq(k, j)
       IN  <<m>> \o SortedKeys(S \ {m})

\* sep.join(parts)
RECURSIVE Join(_, _)
Join(sep, parts) ==
  IF parts = <<>> THEN <<>>
  ELSE IF Len(parts) = 1 THEN parts[1]
  ELSE parts[1] \o sep \o Join(sep, Tail(parts))

\* the keys of attrs whose value is a str, in sorted order
StrKeys(attrs) == SortedKeys({k \in DOMAIN attrs : IsStr(attrs[k])})

(***************************************************************************)
(* ProductDB.compute_text_hash                                             *)
(***************************************************************************)

\* `self.description or ''`
DescOrEmpty(d) == IF d.isNone THEN <<>> ELSE d.s

\* mutant of TextContent: the stock takes part in the hash input
TextContentWithStock(p) ==
  p.name \o <<"|">> \o DescOrEmpty(p.description) \o <<"|">> \o p.category
    \o (IF p.stock > 0 THEN <<"|", "s">> ELSE <<>>)

\* the text_content string that is fed to the digest
TextContent(p) ==
  LET base == p.name \o <<"|">> \o DescOrEmpty(p.description) \o <<"|">> \o p.category
      keys == StrKeys(p.attributes)
      attr_text == Join(<<"|">>, [i \in 1..Len(keys) |->
                                    keys[i] \o <<":">> \o p.attributes[keys[i]].s])
  IN  IF DOMAIN p.attributes # {} THEN base \o <<"|">> \o attr_text ELSE base

\* hashlib.sha256(..).hexdigest(): a digest is modelled collision-free, as a
\* tagged copy of its input, so two digests are equal exactly when the inputs are
Sha256(text) == [sha256 |-> text]

compute_text_hash(p) == Sha256(TextContent(p))

(***************************************************************************)
(* EmbeddingGenerator.build_embedding_text                                 *)
(***************************************************************************)

\* a list-valued attribute (for the embedding text; not a str for the hash)
ListVal(items) == [kind |-> "list", items |-> items]

\* value.strip() is non-empty: the model's strings hold no whitespace
StripNonEmpty(s) == s # <<>>

\* the keys whose value contributes a "key: value" part, in dict order
\* (the model's dicts iterate in sorted key order)
TextAttrKeys(attrs) ==
  SortedKeys({k \in DOMAIN attrs :
                \/ IsStr(attrs[k]) /\ StripNonEmpty(attrs[k].s)
                \/ attrs[k].kind = "list" /\ attrs[k].items # <<>>})

AttrPart(attrs, k) ==
  IF IsStr(attrs[k]) THEN k \o <<": ">> \o attrs[k].s
  ELSE k \o <<": ">> \o Join(<<", ">>, attrs[k].items)

build_embedding_text(p) ==
  LET keys  == TextAttrKeys(p.attributes)
      parts == <<  <<"Producto: ">> \o p.name, <<"Categoria: ">> \o p.category >>
               \o (IF DescOrEmpty(p.description) # <<>>
                   THEN << <<"Descripcion: ">> \o p.description.s >> ELSE <<>>)
               \o (IF p.unit # <<>> /\ p.unit # <<"unidad">>
                   THEN << <<"Unidad: ">> \o p.unit >> ELSE <<>>)
               \o (IF keys # <<>>
                   THEN << <<"Caracteristicas: ">> \o
                           Join(<<"; ">>, [i \in 1..Len(keys) |-> AttrPart(p.attributes, keys[i])]) >>
                   ELSE <<>>)
  IN  Join(<<". ">>, parts)

(***************************************************************************)
(* Bounds and sample data                                                  *)
(***************************************************************************)

\* product ids (uuid4) that can be handed out
MaxId == 2
\* writes to the relational store by its writers (upserts and deletes)
MaxEnvOps == 3
\* EmbeddingGenerator.batch_size (8 by default), reduced
BatchSize == 2

Skus == {"A", "B"}
Ids == 1..MaxId

\* textual content of a product
ContentX ==
  [name |-> <<"a">>, description |-> None, category |-> <<"c">>,
   unit |-> <<"unidad">>, attributes |-> <<>>]
ContentY ==
  [name |-> <<"b">>, description |-> None, category |-> <<"c">>,
   unit |-> <<"unidad">>, attributes |-> <<>>]
Contents == {ContentX, ContentY}

\* what a writer of the relational store can write for a sku: the textual
\* content, the price in cents and the stock; sku A changes in content and in
\* price and stock, the other skus keep theirs
Catalog ==
  { [content |-> ContentX, price |-> 100, stock |-> 0],
    [content |-> ContentX, price |-> 250, stock |-> 5],
    [content |-> ContentY, price |-> 100, stock |-> 0] }
CatalogOf(sku) ==
  IF sku = "A" THEN Catalog ELSE {[content |-> ContentY, price |-> 250, stock |-> 5]}

(***************************************************************************)
(* State                                                                   *)
(***************************************************************************)

VARIABLES
  pg,        \* relational store, table products: sku -> row
  usedIds,   \* the product ids (uuid4) handed out so far
  index,     \* vector index: point id -> point; the point id "product-<id>"
             \* is modelled by the product id <id>
  run,       \* the embedding sync run (PostgresToQdrantPipeline.run)
  rec,       \* the deletion reconciler (PostgresToQdrantPipeline.sync_deletions)
  envOps,    \* number of writes to the relational store so far
  cmd,       \* the command being executed: its position, the clients its
             \* pipelines hold, and what it handed back to the caller
  hp, hq     \* in the specifications of a single function: its argument and
             \* its result (compute_text_hash: two product rows)

vars == <<pg, usedIds, index, run, rec, envOps, cmd, hp, hq>>

\* a value for "no row" / "no result yet"
NoRow == [id |-> 0]

\* no command is being executed
NoCmd == [pc |-> "none"]

\* the row that ProductDB holds for a sku: upsert_product stores the columns
\* and then text_hash = compute_text_hash()
Row(id, sku, d) ==
  LET r == [id |-> id, sku |-> sku, name |-> d.content.name,
            description |-> d.content.description, category |-> d.content.category,
            unit |-> d.content.unit, attributes |-> d.content.attributes,
            price |-> d.price, stock |-> d.stock]
  IN  r @@ [text_hash |-> compute_text_hash(r)]

\* the textual fields the hash is meant to cover
TextFields(r) == <<r.name, r.description, r.category, r.attributes>>

\* float(Decimal): the payload holds a float, not the Decimal of the row
ToFloat(cents) == [float |-> cents]

(***************************************************************************)
(* PostgresLoader                                                          *)
(***************************************************************************)

\* get_all_products: SELECT without ORDER BY; the model returns the rows in
\* sku order
RECURSIVE SeqOfSkus(_)
SeqOfSkus(S) ==
  IF S = {} THEN <<>>
  ELSE LET m == CHOOSE k \in S : \A j \in S : LexLeq(<<k>>, <<j>>)
       IN  <<m>> \o SeqOfSkus(S \ {m})

get_all_products(store) ==
  LET skus == SeqOfSkus(DOMAIN store)
  IN  [i \in 1..Len(skus) |-> store[skus[i]]]

\* upsert_product: INSERT .. ON CONFLICT (sku) DO UPDATE of every column but
\* sku, id and created_at; a new row gets a fresh uuid4
upsert_product(store, sku, d, freshId) ==
  IF sku \in DOMAIN store
  THEN [store EXCEPT ![sku] = Row(store[sku].id, sku, d)]
  ELSE store @@ (sku :> Row(freshId, sku, d))

\* delete_product: the row of the sku is removed, if there is one
delete_product(store, sku) == [s \in DOMAIN store \ {sku} |-> store[s]]

(***************************************************************************)
(* QdrantLoader                                                            *)
(***************************************************************************)

Min(a, b) == IF a < b THEN a ELSE b

\* the point ids of the index in scroll order (ascending id)
RECURSIVE ScrollOrder(_)
ScrollOrder(S) ==
  IF S = {} THEN <<>>
  ELSE LET m == CHOOSE k \in S : \A j \in S : k <= j
       IN  <<m>> \o ScrollOrder(S \ {m})

\* the loop of get_existing_hashes over the scrolled points:
\* hashes[sku] = text_hash, a later point of the same sku overwrites
RECURSIVE ScanHashes(_, _, _)
ScanHashes(idx, ids, hashes) ==
  IF ids = <<>> THEN hashes
  ELSE LET pt == idx[Head(ids)]
       IN  ScanHashes(idx, Tail(ids),
                      [s \in DOMAIN hashes \cup {pt.sku} |->
                         IF s = pt.sku THEN pt.text_hash ELSE hashes[s]])

get_existing_hashes(idx) == ScanHashes(idx, ScrollOrder(DOMAIN idx), <<>>)

\* client.upsert of the points of a list of ProductEmbedding: a point is
\* written under its id, vector and payload replaced
RECURSIVE UpsertPoints(_, _)
UpsertPoints(idx, embs) ==
  IF embs = <<>> THEN idx
  ELSE LET e  == Head(embs)
           pt == [vector |-> e.vector, sku |-> e.sku, product_id |-> e.product_id,
                  category |-> e.category, price |-> ToFloat(e.price),
                  stock |-> e.stock, text |-> e.text, text_hash |-> e.text_hash]
       IN  UpsertPoints([i \in DOMAIN idx \cup {e.id} |-> IF i = e.id THEN pt ELSE idx[i]],
                        Tail(embs))

\* mutant of set_payload: the payload is overwritten, not merged, and the
\* stored hash is lost
set_payloadOverwrite(idx, point_id, price, stock) ==
  IF point_id \in DOMAIN idx
  THEN [idx EXCEPT ![point_id].price = price, ![point_id].stock = stock,
                   ![point_id].text_hash = Sha256(<<>>)]
  ELSE idx

\* client.set_payload(payload={price, stock}, points=[point_id]): the two
\* payload keys of the point are overwritten; no point of that id, no change
set_payload(idx, point_id, price, stock) ==
  IF point_id \in DOMAIN idx
  THEN [idx EXCEPT ![point_id].price = price, ![point_id].stock = stock]
  ELSE idx

\* mutant of delete_by_sku: only the first point of the sku is deleted
delete_by_skuFirstPoint(idx, sku) ==
  LET hit == {j \in DOMAIN idx : idx[j].sku = sku}
  IN  IF hit = {} THEN idx
      ELSE [i \in DOMAIN idx \ {CHOOSE j \in hit : \A h \in hit : j <= h} |-> idx[i]]

\* delete_by_sku: delete by filter payload.sku == sku
delete_by_sku(idx, sku) == [i \in {j \in DOMAIN idx : idx[j].sku # sku} |-> idx[i]]

\* the skus that have a point in the index
IndexSkus(idx) == {idx[i].sku : i \in DOMAIN idx}

(***************************************************************************)
(* EmbeddingGenerator                                                      *)
(***************************************************************************)

\* the vector the provider computes for a text
Vec(text) == [embedding |-> text]

\* sorted(data["data"], key=lambda x: x["index"]): stable insertion sort
RECURSIVE InsertByIndex(_, _)
InsertByIndex(item, sorted) ==
  IF sorted = <<>> THEN <<item>>
  ELSE IF item.index < Head(sorted).index THEN <<item>> \o sorted
  ELSE <<Head(sorted)>> \o InsertByIndex(item, Tail(sorted))

RECURSIVE SortByIndex(_)
SortByIndex(data) ==
  IF data = <<>> THEN <<>>
  ELSE InsertByIndex(data[Len(data)], SortByIndex(SubSeq(data, 1, Len(data) - 1)))

\* _call_voyage_api on a 2xx response: the embeddings in index order
call_voyage_api(data) ==
  LET embeddings_data == SortByIndex(data)
  IN  [i \in 1..Len(embeddings_data) |-> embeddings_data[i].embedding]

\* the ProductEmbedding that generate_embeddings_batch builds
ProductEmbedding(product, vector, text) ==
  [id |-> product.id, vector |-> vector, sku |-> product.sku,
   product_id |-> product.id, category |-> product.category,
   price |-> product.price, stock |-> product.stock,
   text |-> text, text_hash |-> compute_text_hash(product)]

\* the records of one chunk: zip(batch, embeddings, texts) stops at the
\* shortest of the three
ChunkRecords(batch, embeddings) ==
  LET texts == [i \in 1..Len(batch) |-> build_embedding_text(batch[i])]
      n     == Min(Len(batch), Len(embeddings))
  IN  [i \in 1..n |-> ProductEmbedding(batch[i], embeddings[i], texts[i])]

\* products[i : i + batch_size], i counted from 0
Chunk(products, i, size) == SubSeq(products, i + 1, Min(i + size, Len(products)))

\* should_regenerate
should_regenerate(product, hashes) ==
  IF product.sku \notin DOMAIN hashes THEN TRUE
  ELSE compute_text_hash(product) # hashes[product.sku]

(***************************************************************************)
(* The embedding provider                                                  *)
(***************************************************************************)

\* all orders of the elements of a set, as sequences
RECURSIVE Perms(_)
Perms(S) ==
  IF S = {} THEN {<<>>}
  ELSE UNION {{<<x>> \o q : q \in Perms(S \ {x})} : x \in S}

\* the "data" list of a 2xx response that carries the items of the given
\* indices, in the given order: item i is the embedding of texts[i]
ResponseData(batch, idxs) ==
  [k \in 1..Len(idxs) |->
     [index |-> idxs[k], embedding |-> Vec(build_embedding_text(batch[idxs[k] + 1]))]]

\* the responses of a provider that answers every input once, in any order
FullResponses(batch) == {ResponseData(batch, q) : q \in Perms(0..(Len(batch) - 1))}

(***************************************************************************)
(* PostgresToQdrantPipeline.run                                            *)
(***************************************************************************)

\* batch_size of run(), passed to upsert_batch
UpsertBatchSize == 50

NoResult == [success |-> FALSE, returned |-> FALSE]

IdleRun ==
  [pc |-> "idle", force |-> FALSE, all_products |-> <<>>,
   products_to_embed |-> <<>>, products_metadata_only |-> <<>>,
   i |-> 0, embeddings |-> <<>>, failed_chunks |-> {},
   j |-> 0, embeddings_upserted |-> 0,
   m |-> 0, metadata_updates |-> 0,
   quiet |-> TRUE, result |-> NoResult]

\* mutant of NeedsEmbedding: the branch that compares the hashes is missing
NeedsEmbeddingNoCompare(product, hashes, force) ==
  IF force \/ product.sku \notin DOMAIN hashes THEN TRUE ELSE FALSE

\* mutant of NeedsEmbedding: a product without a stored hash is not embedded
NeedsEmbeddingKnownOnly(product, hashes, force) ==
  IF force THEN TRUE
  ELSE IF product.sku \in DOMAIN hashes /\ hashes[product.sku] # compute_text_hash(product)
  THEN TRUE
  ELSE FALSE

\* the classification test of the loop of run()
NeedsEmbedding(product, hashes, force) ==
  IF force \/ product.sku \notin DOMAIN hashes THEN TRUE
  ELSE IF hashes[product.sku] # compute_text_hash(product) THEN TRUE
  ELSE FALSE

\* the EmbeddingPipelineResult of a run that reached its return statement
SuccessResult(r) ==
  [success |-> TRUE, returned |-> TRUE,
   total_products |-> Len(r.all_products),
   products_needing_update |-> Len(r.products_to_embed),
   embeddings_generated |-> Len(r.embeddings),
   embeddings_upserted |-> r.embeddings_upserted,
   metadata_only_updates |-> r.metadata_updates,
   errors |-> 0]

\* the EmbeddingPipelineResult of the except branch of run()
FailureResult ==
  [success |-> FALSE, returned |-> TRUE,
   total_products |-> 0, products_needing_update |-> 0,
   embeddings_generated |-> 0, embeddings_upserted |-> 0,
   metadata_only_updates |-> 0, errors |-> 1]

\* run() has returned: its locals are gone, the caller holds the result
Returned(result) == [IdleRun EXCEPT !.pc = "done", !.result = result]

\* run() after the embedding stage: the metadata stage if there is something
\* to patch, else the return statement
AfterEmbedStage(r) ==
  IF r.products_metadata_only # <<>> THEN [r EXCEPT !.pc = "patch"]
  ELSE Returned(SuccessResult(r))

\* run() after the calls of generate_embeddings_batch: upsert_batch if there
\* are embeddings
AfterChunks(r) ==
  IF r.embeddings # <<>> THEN [r EXCEPT !.pc = "upsert"] ELSE AfterEmbedStage(r)

\* run.quiet records that no reconciler deleted index points while the run
\* was between its first read and its return
RunActive == run.pc \in {"hashes", "embed", "upsert", "patch"}
RunDisturbed == IF RunActive THEN [run EXCEPT !.quiet = FALSE] ELSE run

\* run(): the context managers are entered and get_all_products is awaited;
\* no product, the run returns at once
SyncStart(force) ==
  /\ run.pc \in {"idle", "done"}
  /\ LET all == get_all_products(pg)
         r   == [IdleRun EXCEPT !.force = force, !.all_products = all]
     IN  run' = IF Len(all) = 0
                THEN Returned(SuccessResult(r))
                ELSE [r EXCEPT !.pc = "hashes"]
  /\ UNCHANGED <<pg, usedIds, index, rec, envOps, cmd, hp, hq>>

\* run(): get_existing_hashes is awaited unless the run is forced, and the
\* products are classified
SyncClassify ==
  /\ run.pc = "hashes"
  /\ LET hashes == IF run.force THEN <<>> ELSE get_existing_hashes(index)
         Embed(p) == NeedsEmbedding(p, hashes, run.force)
         Meta(p)  == ~NeedsEmbedding(p, hashes, run.force)
         r == [run EXCEPT !.products_to_embed = SelectSeq(run.all_products, Embed),
                          !.products_metadata_only = SelectSeq(run.all_products, Meta)]
     IN  run' = IF r.products_to_embed # <<>>
                THEN [r EXCEPT !.pc = "embed"]
                ELSE AfterEmbedStage(r)
  /\ UNCHANGED <<pg, usedIds, index, rec, envOps, cmd, hp, hq>>

\* generate_embeddings_batch, one pass of its loop with a 2xx response
EmbedChunk(data) ==
  LET batch == Chunk(run.products_to_embed, run.i, BatchSize)
      r == [run EXCEPT !.embeddings = @ \o ChunkRecords(batch, call_voyage_api(data)),
                       !.i = @ + BatchSize]
  IN  run' = IF r.i < Len(r.products_to_embed) THEN r ELSE AfterChunks(r)

SyncEmbedChunkOk ==
  /\ run.pc = "embed"
  /\ \E data \in FullResponses(Chunk(run.products_to_embed, run.i, BatchSize)) :
       EmbedChunk(data)
  /\ UNCHANGED <<pg, usedIds, index, rec, envOps, cmd, hp, hq>>

\* mutant of SyncEmbedChunkFail: the except branch leaves the loop
SyncEmbedChunkFailBreak ==
  /\ run.pc = "embed"
  /\ run' = AfterChunks([run EXCEPT !.failed_chunks = @ \cup {run.i}, !.i = @ + BatchSize])
  /\ UNCHANGED <<pg, usedIds, index, rec, envOps, cmd, hp, hq>>

\* generate_embeddings_batch, one pass of its loop in which _call_voyage_api
\* raises: the except branch logs and continues with the next chunk
SyncEmbedChunkFail ==
  /\ run.pc = "embed"
  /\ LET r == [run EXCEPT !.failed_chunks = @ \cup {run.i}, !.i = @ + BatchSize]
     IN  run' = IF r.i < Len(r.products_to_embed) THEN r ELSE AfterChunks(r)
  /\ UNCHANGED <<pg, usedIds, index, rec, envOps, cmd, hp, hq>>

\* upsert_batch, one pass of its loop: client.upsert of embeddings[j : j + batch_size]
SyncUpsertBatch ==
  /\ run.pc = "upsert"
  /\ LET batch == Chunk(run.embeddings, run.j, UpsertBatchSize)
         r == [run EXCEPT !.j = @ + UpsertBatchSize,
                          !.embeddings_upserted = @ + Len(batch)]
     IN  /\ index' = UpsertPoints(index, batch)
         /\ run' = IF r.j < Len(r.embeddings) THEN r ELSE AfterEmbedStage(r)
  /\ UNCHANGED <<pg, usedIds, rec, envOps, cmd, hp, hq>>

\* upsert_batch: client.upsert raises, run() returns the failed result
SyncUpsertFail ==
  /\ run.pc = "upsert"
  /\ run' = Returned(FailureResult)
  /\ UNCHANGED <<pg, usedIds, index, rec, envOps, cmd, hp, hq>>

\* update_metadata_batch, one pass of its loop: set_payload of price and
\* stock on the point "product-<id>" of the m-th metadata-only product
SyncPatch ==
  /\ run.pc = "patch"
  /\ LET p == run.products_metadata_only[run.m + 1]
         r == [run EXCEPT !.m = @ + 1, !.metadata_updates = @ + 1]
     IN  /\ index' = set_payload(index, p.id, ToFloat(p.price), p.stock)
         /\ run' = IF r.m < Len(r.products_metadata_only)
                   THEN r
                   ELSE Returned(SuccessResult(r))
  /\ UNCHANGED <<pg, usedIds, rec, envOps, cmd, hp, hq>>

\* update_metadata_batch: set_payload raises (the index answers that the
\* point does not exist), run() returns the failed result
SyncPatchFail ==
  /\ run.pc = "patch"
  /\ run.products_metadata_only[run.m + 1].id \notin DOMAIN index
  /\ run' = Returned(FailureResult)
  /\ UNCHANGED <<pg, usedIds, index, rec, envOps, cmd, hp, hq>>

(***************************************************************************)
(* PostgresToQdrantPipeline.sync_deletions                                 *)
(***************************************************************************)

\* pc, and the locals of sync_deletions; index_seen is the index as
\* get_existing_hashes scanned it and orphans the to_delete set as computed;
\* at pc = "done" deleted is the returned value
IdleRec ==
  [pc |-> "idle", pg_skus |-> {}, index_seen |-> <<>>, orphans |-> {},
   to_delete |-> {}, deleted |-> 0]

\* sync_deletions: get_all_products is awaited, pg_skus is built
RecStart ==
  /\ rec.pc \in {"idle", "done"}
  /\ rec' = [IdleRec EXCEPT !.pc = "scan", !.pg_skus = DOMAIN pg]
  /\ UNCHANGED <<pg, usedIds, index, run, envOps, cmd, hp, hq>>

\* mutant of RecScan: to_delete is every sku of the index
RecScanNoDifference ==
  /\ rec.pc = "scan"
  /\ LET qdrant_skus == DOMAIN get_existing_hashes(index)
         to_delete   == qdrant_skus
     IN  rec' = IF to_delete = {}
                THEN [IdleRec EXCEPT !.pc = "done"]
                ELSE [rec EXCEPT !.pc = "delete", !.index_seen = index,
                                 !.orphans = to_delete, !.to_delete = to_delete]
  /\ UNCHANGED <<pg, usedIds, index, run, envOps, cmd, hp, hq>>

\* sync_deletions: get_existing_hashes is awaited, to_delete is built; with
\* nothing to delete the loop is skipped and 0 is returned
RecScan ==
  /\ rec.pc = "scan"
  /\ LET qdrant_skus == DOMAIN get_existing_hashes(index)
         to_delete   == qdrant_skus \ rec.pg_skus
     IN  rec' = IF to_delete = {}
                THEN [IdleRec EXCEPT !.pc = "done"]
                ELSE [rec EXCEPT !.pc = "delete", !.index_seen = index,
                                 !.orphans = to_delete, !.to_delete = to_delete]
  /\ UNCHANGED <<pg, usedIds, index, run, envOps, cmd, hp, hq>>

\* sync_deletions, one pass of its loop: delete_by_sku of one sku of
\* to_delete (a set: any order); after the last one deleted is returned
RecDelete ==
  /\ rec.pc = "delete"
  /\ \E sku \in rec.to_delete :
       /\ index' = delete_by_sku(index, sku)
       /\ rec' = IF rec.to_delete = {sku}
                 THEN [IdleRec EXCEPT !.pc = "done", !.orphans = rec.orphans,
                                      !.deleted = rec.deleted + 1]
                 ELSE [rec EXCEPT !.to_delete = @ \ {sku}, !.deleted = @ + 1]
  /\ run' = RunDisturbed
  /\ UNCHANGED <<pg, usedIds, envOps, cmd, hp, hq>>

(***************************************************************************)
(* Writers of the relational store                                         *)
(***************************************************************************)

\* a product is upserted (the load stage of transform-and-load)
EnvUpsert ==
  /\ envOps < MaxEnvOps
  /\ \E sku \in Skus : \E d \in CatalogOf(sku) :
       \/ /\ sku \in DOMAIN pg
          /\ pg' = upsert_product(pg, sku, d, 0)
          /\ usedIds' = usedIds
       \/ /\ sku \notin DOMAIN pg
          /\ \E id \in Ids \ usedIds :
               /\ pg' = upsert_product(pg, sku, d, id)
               /\ usedIds' = usedIds \cup {id}
  /\ envOps' = envOps + 1
  /\ UNCHANGED <<index, run, rec, cmd, hp, hq>>

\* a product is deleted at the source
EnvDelete ==
  /\ envOps < MaxEnvOps
  /\ \E sku \in DOMAIN pg : pg' = delete_product(pg, sku)
  /\ envOps' = envOps + 1
  /\ UNCHANGED <<usedIds, index, run, rec, cmd, hp, hq>>

(***************************************************************************)
(* Specification of the synchronisation engine                             *)
(***************************************************************************)

Init ==
  /\ pg = <<>>
  /\ usedIds = {}
  /\ index = <<>>
  /\ run = IdleRun
  /\ rec = IdleRec
  /\ envOps = 0
  /\ cmd = NoCmd
  /\ hp = NoRow
  /\ hq = NoRow

Next ==
  \/ \E force \in BOOLEAN : SyncStart(force)
  \/ SyncClassify
  \/ SyncEmbedChunkOk
  \/ SyncEmbedChunkFail
  \/ SyncUpsertBatch
  \/ SyncUpsertFail
  \/ SyncPatch
  \/ SyncPatchFail
  \/ RecStart
  \/ RecScan
  \/ RecDelete
  \/ EnvUpsert
  \/ EnvDelete

Spec == Init /\ [][Next]_vars

(***************************************************************************)
(* compute_text_hash alone: two rows of one sku, the second rewritten by   *)
(* an upsert that draws every field from sample values that contain the    *)
(* delimiters of the hash input                                            *)
(***************************************************************************)

HashNames == {<<"a">>, <<"a", "|">>}
HashDescriptions == {None, Some(<<"|">>)}
HashCategories == {<<"c">>, <<"d">>}
HashAttrKeys == {<<"a">>, <<"a", ":">>}
HashAttrValues == {StrVal(<<"a">>), StrVal(<<":", "a">>), IntVal(7)}
HashAttributes == UNION {[K -> HashAttrValues] : K \in SUBSET HashAttrKeys}

HashContents ==
  [name : HashNames, description : HashDescriptions, category : HashCategories,
   unit : {<<"unidad">>}, attributes : HashAttributes]

HashCatalog == [content : HashContents, price : {100, 250}, stock : {0, 5}]

InitHash ==
  /\ pg = <<>>
  /\ usedIds = {}
  /\ index = <<>>
  /\ run = IdleRun
  /\ rec = IdleRec
  /\ envOps = 0
  /\ cmd = NoCmd
  /\ \E c \in HashContents :
       hp = Row(1, "A", [content |-> c, price |-> 100, stock |-> 0])
  /\ hq = hp

\* the row hq, a copy of hp, is upserted once: every column but id and sku
\* is replaced and text_hash is recomputed
HashUpsert ==
  /\ hq = hp
  /\ \E d \in HashCatalog : hq' = upsert_product(("A" :> hq), "A", d, 0)["A"]
  /\ UNCHANGED <<pg, usedIds, index, run, rec, envOps, cmd, hp>>

NextHash == HashUpsert

SpecHash == InitHash /\ [][NextHash]_vars

\* the string-valued attributes of a row
StrAttrs(r) == [k \in {j \in DOMAIN r.attributes : IsStr(r.attributes[j])} |-> r.attributes[k]]

\* C1: two products with the same name, description, category and
\* attributes, whatever their price and stock, have the same digest
C1_HashIgnoresPriceStock ==
  (TextFields(hp) = TextFields(hq)) => (compute_text_hash(hp) = compute_text_hash(hq))

\* C1 witness: two rows that differ in price and in stock, agree in the
\* textual fields, and carry the same stored text_hash
C1_Witness ==
  /\ hp.price # hq.price
  /\ hp.stock # hq.stock
  /\ TextFields(hp) = TextFields(hq)
  /\ DOMAIN hp.attributes # {}
  /\ hp.text_hash = hq.text_hash

\* C2: two products that differ in name, description, category or a
\* string-valued attribute have different hash inputs, hence different digests
C2_HashChangesWithText ==
  (\/ hp.name # hq.name
   \/ hp.description # hq.description
   \/ hp.category # hq.category
   \/ StrAttrs(hp) # StrAttrs(hq))
  => (TextContent(hp) # TextContent(hq) /\ hp.text_hash # hq.text_hash)

(***************************************************************************)
(* Properties of the sync run                                              *)
(***************************************************************************)

\* how often x occurs in the sequence s
Occurs(s, x) == Cardinality({a \in 1..Len(s) : s[a] = x})

\* the step of a run that classifies the products it read
ClassifyStep == run.pc = "hashes" /\ run'.pc # "hashes"

\* C3: the classification step puts every product read from the relational
\* store in exactly one of products_to_embed / products_metadata_only: in
\* products_to_embed if the run is forced, or the hash map read from the
\* index has no entry for its sku, or the stored hash differs from the
\* product's hash; in products_metadata_only otherwise
C3_Classification ==
  [][ClassifyStep =>
       LET hashes == IF run.force THEN <<>> ELSE get_existing_hashes(index)
       IN  \A k \in 1..Len(run.all_products) :
             LET p == run.all_products[k]
                 e == Occurs(run'.products_to_embed, p)
                 m == Occurs(run'.products_metadata_only, p)
             IN  /\ e + m = 1
                 /\ (e = 1) <=> (run.force \/ should_regenerate(p, hashes))]_vars

\* C3 witness: a non-forced run has classified one product whose stored hash
\* differs as needing an embedding and another product as metadata-only
C3_Witness ==
  /\ run.pc = "embed"
  /\ ~run.force
  /\ Len(run.products_to_embed) = 1
  /\ Len(run.products_metadata_only) = 1
  /\ run.products_to_embed[1].sku \in IndexSkus(index)

\* C4: in a non-forced run, a product whose index point was written by an
\* earlier run from the textual fields it still has (the point of its id
\* carries the product's hash) is not handed to the embedding provider but
\* classified metadata-only
C4_UnchangedTextNotEmbedded ==
  [][(ClassifyStep /\ ~run.force) =>
       \A k \in 1..Len(run.all_products) :
         LET p == run.all_products[k]
         IN  (p.id \in DOMAIN index /\ index[p.id].text_hash = compute_text_hash(p))
             => /\ Occurs(run'.products_to_embed, p) = 0
                /\ Occurs(run'.products_metadata_only, p) = 1]_vars

\* the step of update_metadata_batch that patches one point
PatchStep ==
  /\ run.pc = "patch"
  /\ \/ run'.pc = "patch" /\ run'.m = run.m + 1
     \/ run'.pc = "done" /\ run'.result.success

\* C5: a metadata-only update changes nothing in the index but the price and
\* the stock of the point it addresses: no point is added or removed, every
\* other point and every other field of the addressed point (vector, sku,
\* product id, category, source text, hash) stay, and so does the hash map
\* that the next run reads
C5_PatchFrame ==
  [][PatchStep =>
       LET p == run.products_metadata_only[run.m + 1]
       IN  /\ DOMAIN index' = DOMAIN index
           /\ \A i \in DOMAIN index :
                /\ i # p.id => index'[i] = index[i]
                /\ i = p.id =>
                     /\ index'[i] = [index[i] EXCEPT !.price = ToFloat(p.price),
                                                     !.stock = p.stock]
                     /\ index'[i].vector = index[i].vector
                     /\ index'[i].text_hash = index[i].text_hash
           /\ get_existing_hashes(index') = get_existing_hashes(index)]_vars

\* C5 witness: the first of two metadata-only products has been patched; its
\* point holds the price and stock of the row and still the product's hash
C5_Witness ==
  /\ run.pc = "patch"
  /\ run.m = 1
  /\ LET p == run.products_metadata_only[1]
     IN  /\ p.id \in DOMAIN index
         /\ p.price = 250
         /\ index[p.id].price = ToFloat(p.price)
         /\ index[p.id].stock = p.stock
         /\ index[p.id].text_hash = compute_text_hash(p)
         /\ index[p.id].vector = Vec(build_embedding_text(p))

\* the step with which a run returns to its caller
ReturnStep == RunActive /\ run'.pc = "done"

ChunkFailStep ==
  /\ run.pc = "embed"
  /\ \/ run'.pc = "embed" /\ run'.i = run.i + BatchSize /\ run'.embeddings = run.embeddings
     \/ run'.pc = "patch" /\ run.embeddings = <<>>
     \/ run'.pc = "upsert" /\ run'.embeddings = run.embeddings
     \/ run'.pc = "done" /\ run.embeddings = <<>>

\* the step of upsert_batch that writes a batch of embeddings
UpsertStep ==
  /\ run.pc = "upsert"
  /\ \/ run'.pc = "upsert" /\ run'.j > run.j
     \/ run'.pc = "patch"
     \/ run'.pc = "done" /\ run'.result.success

\* C9: a product whose chunk failed in a non-forced run is classified as
\* needing an embedding by a non-forced classification of what the index
\* then holds; and once a run has written the embedding of a product, the
\* index holds exactly one point for the product's sku, with the hash of the
\* product
C9_RetryKeepsOneRecord ==
  [][/\ (ChunkFailStep /\ ~run.force) =>
          LET batch == Chunk(run.products_to_embed, run.i, BatchSize)
          IN  \A k \in 1..Len(batch) :
                NeedsEmbedding(batch[k], get_existing_hashes(index'), FALSE)
     /\ UpsertStep =>
          LET batch == Chunk(run.embeddings, run.j, UpsertBatchSize)
          IN  \A k \in 1..Len(batch) :
                LET points == {i \in DOMAIN index' : index'[i].sku = batch[k].sku}
                IN  /\ Cardinality(points) = 1
                    /\ \A i \in points : index'[i].text_hash = batch[k].text_hash]_vars

(***************************************************************************)
(* The reconciler alone: sync_deletions with no writer of either store     *)
(***************************************************************************)

\* the skus of the reconciliation example; sku number k has the row id k and
\* may have left a stale point under the id k + Len(RecSkuSeq)
RecSkuSeq == <<"A", "B", "C">>
RecSkus == {RecSkuSeq[k] : k \in 1..Len(RecSkuSeq)}
RecPointIds == 1..(2 * Len(RecSkuSeq))
RecSkuOf(id) == RecSkuSeq[IF id > Len(RecSkuSeq) THEN id - Len(RecSkuSeq) ELSE id]
RecRow(id) ==
  Row(id, RecSkuOf(id),
      [content |-> IF id > Len(RecSkuSeq) THEN ContentY ELSE ContentX,
       price |-> 100, stock |-> 0])
RecPoint(id) ==
  LET p == RecRow(id)
      t == build_embedding_text(p)
  IN  UpsertPoints(<<>>, <<ProductEmbedding(p, Vec(t), t)>>)[id]

\* any subset of the skus in the relational store, any subset of their
\* current and stale points in the index
InitRec ==
  /\ \E S \in SUBSET (1..Len(RecSkuSeq)) :
       pg = [sku \in {RecSkuSeq[k] : k \in S} |->
               RecRow(CHOOSE k \in S : RecSkuSeq[k] = sku)]
  /\ \E P \in SUBSET RecPointIds : index = [id \in P |-> RecPoint(id)]
  /\ usedIds = RecPointIds
  /\ run = IdleRun
  /\ rec = IdleRec
  /\ envOps = 0
  /\ cmd = NoCmd
  /\ hp = NoRow
  /\ hq = NoRow

NextRec == RecStart \/ RecScan \/ RecDelete

SpecRec == InitRec /\ [][NextRec]_vars

\* the step with which sync_deletions returns
RecReturnStep == rec.pc \in {"scan", "delete"} /\ rec'.pc = "done"

\* C6: with no writer, when sync_deletions returns the index holds exactly
\* the points it held at the scan whose sku is in the relational store, each
\* unchanged, and the value returned is the number of orphan skus
C6_ReconcileExact ==
  [][RecReturnStep =>
       LET seen    == IF rec.pc = "scan" THEN index ELSE rec.index_seen
           orphans == IndexSkus(seen) \ DOMAIN pg
       IN  /\ DOMAIN index' = {i \in DOMAIN seen : seen[i].sku \notin orphans}
           /\ \A i \in DOMAIN index' : index'[i] = seen[i]
           /\ rec'.deleted = Cardinality(orphans)]_vars

\* C6 witness: relational skus {A,B}; the reconciler found C an orphan,
\* deleted it, returned 1, and the points of A and B are still there
C6_Witness ==
  /\ DOMAIN pg = {"A", "B"}
  /\ rec.pc = "done"
  /\ rec.orphans = {"C"}
  /\ rec.deleted = 1
  /\ IndexSkus(index) = {"A", "B"}

(***************************************************************************)
(* generate_embeddings_batch alone                                         *)
(***************************************************************************)

MaxProducts == 5

\* product number k: its own sku, and a name of k letters, so that no two
\* products have the same embedding text
EmbedProduct(k) ==
  Row(k, ToString(k),
      [content |-> [ContentX EXCEPT !.name = [j \in 1..k |-> "a"]],
       price |-> 100, stock |-> 0])

\* the lists of distinct products of at most MaxProducts elements
EmbedInputs ==
  {[k \in 1..Len(q) |-> EmbedProduct(q[k])] :
     q \in UNION {Perms(S) : S \in SUBSET (1..MaxProducts)}}

\* the 2xx responses that carry items for some of the indices of the chunk,
\* each once, in any order
AnyResponses(batch) ==
  {ResponseData(batch, q) :
     q \in UNION {Perms(S) : S \in SUBSET (0..(Len(batch) - 1))}}

InitEmbed ==
  /\ pg = <<>>
  /\ usedIds = {}
  /\ index = <<>>
  /\ \E products \in EmbedInputs :
       run = IF products = <<>>
             THEN AfterChunks([IdleRun EXCEPT !.force = TRUE])
             ELSE [IdleRun EXCEPT !.pc = "embed", !.force = TRUE,
                                  !.all_products = products,
                                  !.products_to_embed = products]
  /\ rec = IdleRec
  /\ envOps = 0
  /\ cmd = NoCmd
  /\ hp = NoRow
  /\ hq = NoRow

\* the provider answers every input of a chunk, or the call raises
NextEmbed == SyncEmbedChunkOk \/ SyncEmbedChunkFail

SpecEmbed == InitEmbed /\ [][NextEmbed]_vars

\* generate_embeddings_batch, one pass of its loop with any 2xx response
EmbedChunkAny ==
  /\ run.pc = "embed"
  /\ \E data \in AnyResponses(Chunk(run.products_to_embed, run.i, BatchSize)) :
       EmbedChunk(data)
  /\ UNCHANGED <<pg, usedIds, index, rec, envOps, cmd, hp, hq>>

\* any 2xx response, or the call raises
NextProvider == EmbedChunkAny \/ SyncEmbedChunkFail

SpecProvider == InitEmbed /\ [][NextProvider]_vars

\* the product ids of the chunks that start at c, c + BatchSize, ... below
\* upto and did not fail, in input order
RECURSIVE SucceededIds(_, _, _, _)
SucceededIds(products, failed, c, upto) ==
  IF c >= upto \/ c >= Len(products) THEN <<>>
  ELSE LET batch == Chunk(products, c, BatchSize)
           ids   == IF c \in failed THEN <<>> ELSE [k \in 1..Len(batch) |-> batch[k].id]
       IN  ids \o SucceededIds(products, failed, c + BatchSize, upto)

C10_VectorPairedByIndex ==
  \A k \in 1..Len(run.embeddings) :
    LET e == run.embeddings[k]
    IN  \E c \in 1..Len(run.products_to_embed) :
          /\ run.products_to_embed[c].id = e.product_id
          /\ e.vector = Vec(build_embedding_text(run.products_to_embed[c]))

(***************************************************************************)
(* ProductNormalizer.normalize_price                                       *)
(***************************************************************************)

\* str.replace(c, ""), c in s, s.rindex(c), str.replace(a, b) for characters
RemoveChar(s, c) == LET Keep(x) == x # c IN SelectSeq(s, Keep)
Contains(s, c) == \E k \in 1..Len(s) : s[k] = c
RIndex(s, c) == CHOOSE k \in 1..Len(s) : s[k] = c /\ \A j \in (k + 1)..Len(s) : s[j] # c
ReplaceChar(s, a, b) == [k \in 1..Len(s) |-> IF s[k] = a THEN b ELSE s[k]]

Digits == <<"0", "1", "2", "3", "4", "5", "6", "7", "8", "9">>
IsDigit(c) == \E d \in 1..Len(Digits) : Digits[d] = c
DigitVal(c) == (CHOOSE d \in 1..Len(Digits) : Digits[d] = c) - 1

RECURSIVE Pow10(_)
Pow10(n) == IF n = 0 THEN 1 ELSE 10 * Pow10(n - 1)

\* the integer written by a string of digits
RECURSIVE DigitsVal(_)
DigitsVal(s) ==
  IF s = <<>> THEN 0 ELSE 10 * DigitsVal(SubSeq(s, 1, Len(s) - 1)) + DigitVal(s[Len(s)])

\* Decimal(str) on strings of digits, '.', ',' : digits with at most one
\* '.', at least one digit; anything else raises
DecimalParses(s) ==
  /\ \A k \in 1..Len(s) : IsDigit(s[k]) \/ s[k] = "."
  /\ Cardinality({k \in 1..Len(s) : s[k] = "."}) <= 1
  /\ \E k \in 1..Len(s) : IsDigit(s[k])

\* price_decimals and the quantum of quantize(); prices are counted in
\* units of 10^-price_decimals
price_decimals == 2

\* Decimal(s).quantize(Decimal("0.00"), rounding=ROUND_HALF_UP), in cents
QuantizeHalfUp(s) ==
  LET digits == RemoveChar(s, ".")
      scale  == IF Contains(s, ".") THEN Len(s) - RIndex(s, ".") ELSE 0
      n      == DigitsVal(digits) * Pow10(price_decimals)
  IN  (2 * n + Pow10(scale)) \div (2 * Pow10(scale))

\* normalize_price of a str, price_multiplier = 1: the result in cents
\* ("E" and "L" stand for the euro and the pound sign)
normalize_price(price) ==
  LET p1 == RemoveChar(RemoveChar(RemoveChar(price, "$"), "E"), "L")
      p2 == RemoveChar(RemoveChar(p1, ","), " ")
      p3 == IF Contains(p2, ",") /\ Contains(p2, ".")
            THEN IF RIndex(p2, ",") > RIndex(p2, ".")
                 THEN ReplaceChar(RemoveChar(p2, "."), ",", ".")
                 ELSE p2
            ELSE p2
  IN  IF DecimalParses(p3) THEN QuantizeHalfUp(p3) ELSE 0

MaxPriceLen == 5

PriceChars == {"1", "5", ",", ".", "$"}
PriceStrings ==
  UNION {[1..n -> PriceChars] : n \in 0..MaxPriceLen}
    \cup {<<"$", "1", ",", "2", "3", "4", ".", "5", "6">>,
          <<"1", ".", "2", "3", "4", ",", "5", "6">>}

NotComputed == [computed |-> FALSE]

InitPrice ==
  /\ pg = <<>>
  /\ usedIds = {}
  /\ index = <<>>
  /\ run = IdleRun
  /\ rec = IdleRec
  /\ envOps = 0
  /\ cmd = NoCmd
  /\ hp \in PriceStrings
  /\ hq = NotComputed

NormalizePrice ==
  /\ hq = NotComputed
  /\ hq' = [computed |-> TRUE, cents |-> normalize_price(hp)]
  /\ UNCHANGED <<pg, usedIds, index, run, rec, envOps, cmd, hp>>

NextPrice == NormalizePrice

SpecPrice == InitPrice /\ [][NextPrice]_vars

\* the reading the separators are meant to get: the later of ',' and '.' is
\* the decimal point, the other one is stripped
LaterIsDecimalPoint(s) ==
  IF RIndex(s, ",") > RIndex(s, ".")
  THEN ReplaceChar(RemoveChar(s, "."), ",", ".")
  ELSE RemoveChar(s, ",")

\* C11: for a price string with both ',' and '.', normalize_price returns
\* the value read with the later of the two as the decimal point and the
\* other stripped; "$1,234.56" and "1.234,56" both give 1234.56
C11_LaterSeparatorIsDecimal ==
  (hq # NotComputed /\ Contains(hp, ",") /\ Contains(hp, ".")) =>
     LET s == LaterIsDecimalPoint(RemoveChar(hp, "$"))
     IN  /\ hq.cents = (IF DecimalParses(s) THEN QuantizeHalfUp(s) ELSE 0)
         /\ hp \in {<<"$", "1", ",", "2", "3", "4", ".", "5", "6">>,
                    <<"1", ".", "2", "3", "4", ",", "5", "6">>}
              => hq.cents = 123456

(***************************************************************************)
(* ProductNormalizer.handle_duplicates                                     *)
(***************************************************************************)

\* a product dict is a function from the keys it has to None, StrVal,
\* IntVal or DictVal; dict.get(key) gives None for a key it has not
DictVal(m) == [kind |-> "dict", m |-> m]
IsDict(v) == v # None /\ v.kind = "dict"
Get(d, key) == IF key \in DOMAIN d THEN d[key] ELSE None

\* {**a, **b}
DictUnion(a, b) == [k \in DOMAIN a \cup DOMAIN b |-> IF k \in DOMAIN b THEN b[k] ELSE a[k]]

\* _default_merge raises TypeError: merged.get("stock", 0) + value with a
\* stock that is not a number, or {**merged.get("attributes", {}), **value}
\* with attributes that are not a mapping
MergeRaises(existing, new) ==
  \/ /\ Get(new, "stock") # None
     /\ "stock" \in DOMAIN existing
     /\ (existing["stock"] = None \/ existing["stock"].kind # "int")
  \/ /\ IsDict(Get(new, "attributes"))
     /\ "attributes" \in DOMAIN existing
     /\ ~IsDict(existing["attributes"])

\* _default_merge where it does not raise
default_merge(existing, new) ==
  [key \in DOMAIN existing \cup DOMAIN new |->
     IF key \notin DOMAIN new \/ new[key] = None THEN existing[key]
     ELSE IF key = "stock"
     THEN IntVal((IF key \in DOMAIN existing THEN existing[key].n ELSE 0) + new[key].n)
     ELSE IF key = "attributes" /\ IsDict(new[key])
     THEN DictVal(DictUnion(IF key \in DOMAIN existing THEN existing[key].m ELSE <<>>,
                            new[key].m))
     ELSE new[key]]

\* the dict `seen` of handle_duplicates: its keys in insertion order and its
\* values; raised when _default_merge raised
NoneSeen == [order |-> <<>>, val |-> <<>>, raised |-> FALSE]

\* mutant of SeenAfter: keep_latest updates the record seen with the new one
SeenAfterUpdate(seen, product, strategy) ==
  LET key == Get(product, "sku")
  IN  IF seen.raised \/ key = None THEN seen
      ELSE IF \A k \in 1..Len(seen.order) : seen.order[k] # key
      THEN [seen EXCEPT !.order = Append(@, key), !.val = (key :> product) @@ @]
      ELSE IF strategy = "keep_first" THEN seen
      ELSE IF strategy = "keep_latest"
      THEN [seen EXCEPT !.val = (key :> DictUnion(seen.val[key], product)) @@ @]
      ELSE IF strategy = "merge"
      THEN IF MergeRaises(seen.val[key], product) THEN [seen EXCEPT !.raised = TRUE]
           ELSE [seen EXCEPT !.val = (key :> default_merge(seen.val[key], product)) @@ @]
      ELSE seen

\* one pass of the loop of handle_duplicates
SeenAfter(seen, product, strategy) ==
  LET key == Get(product, "sku")
  IN  IF seen.raised \/ key = None THEN seen
      ELSE IF \A k \in 1..Len(seen.order) : seen.order[k] # key
      THEN [seen EXCEPT !.order = Append(@, key), !.val = (key :> product) @@ @]
      ELSE IF strategy = "keep_first" THEN seen
      ELSE IF strategy = "keep_latest"
      THEN [seen EXCEPT !.val = (key :> product) @@ @]
      ELSE IF strategy = "merge"
      THEN IF MergeRaises(seen.val[key], product) THEN [seen EXCEPT !.raised = TRUE]
           ELSE [seen EXCEPT !.val = (key :> default_merge(seen.val[key], product)) @@ @]
      ELSE seen

RECURSIVE SeenOf(_, _)
SeenOf(products, strategy) ==
  IF products = <<>> THEN NoneSeen
  ELSE SeenAfter(SeenOf(SubSeq(products, 1, Len(products) - 1), strategy),
                 products[Len(products)], strategy)

\* handle_duplicates: list(seen.values()), or the TypeError of the merge
handle_duplicates(products, strategy) ==
  LET seen == SeenOf(products, strategy)
  IN  IF seen.raised THEN [computed |-> TRUE, raised |-> TRUE, result |-> <<>>]
      ELSE [computed |-> TRUE, raised |-> FALSE,
            result |-> [k \in 1..Len(seen.order) |-> seen.val[seen.order[k]]]]

MaxDupLen == 3

Strategies == {"keep_first", "keep_latest", "merge"}

\* product dicts as they reach handle_duplicates: the sku set, None or
\* missing; optional keys missing or None
DupRecords ==
  { [sku |-> StrVal("A"), name |-> StrVal("n1"), stock |-> IntVal(1),
     attributes |-> DictVal([k |-> StrVal("v1")])],
    [sku |-> StrVal("A"), name |-> None, stock |-> IntVal(2),
     attributes |-> DictVal([k |-> StrVal("v2"), j |-> StrVal("v1")])],
    [sku |-> StrVal("A"), name |-> StrVal("n2"), attributes |-> None],
    [sku |-> StrVal("B"), name |-> StrVal("n1"), stock |-> IntVal(1)],
    [sku |-> StrVal("B"), name |-> StrVal("n2"), stock |-> IntVal(2),
     attributes |-> DictVal([j |-> StrVal("v2")])],
    [sku |-> None, name |-> StrVal("n1"), stock |-> IntVal(1)],
    [name |-> StrVal("n2"), stock |-> IntVal(2)] }

DupInputs == UNION {[1..n -> DupRecords] : n \in 0..MaxDupLen}

InitDup ==
  /\ pg = <<>>
  /\ usedIds = {}
  /\ index = <<>>
  /\ run = IdleRun
  /\ rec = IdleRec
  /\ envOps = 0
  /\ cmd = NoCmd
  /\ \E products \in DupInputs : \E strategy \in Strategies :
       hp = [products |-> products, strategy |-> strategy]
  /\ hq = NotComputed

HandleDuplicates ==
  /\ hq = NotComputed
  /\ hq' = handle_duplicates(hp.products, hp.strategy)
  /\ UNCHANGED <<pg, usedIds, index, run, rec, envOps, cmd, hp>>

NextDup == HandleDuplicates

SpecDup == InitDup /\ [][NextDup]_vars

\* the positions of the input records with a given sku, and the skus of the
\* input in the order of their first occurrence
PositionsOf(products, sku) == {k \in 1..Len(products) : Get(products[k], "sku") = sku}
FirstPos(products, sku) == CHOOSE k \in PositionsOf(products, sku) : \A j \in PositionsOf(products, sku) : k <= j
LastPos(products, sku) == CHOOSE k \in PositionsOf(products, sku) : \A j \in PositionsOf(products, sku) : k >= j
FirstOccurrences(products) ==
  LET IsFirst(k) == Get(products[k], "sku") # None /\ FirstPos(products, products[k]["sku"]) = k
      firsts == {k \in 1..Len(products) : IsFirst(k)}
      RECURSIVE Asc(_)
      Asc(S) == IF S = {} THEN <<>>
                ELSE LET m == CHOOSE x \in S : \A y \in S : x <= y
                     IN  <<products[m]["sku"]>> \o Asc(S \ {m})
  IN  Asc(firsts)

\* C12: under every policy handle_duplicates returns a list with exactly one
\* record per distinct sku of the input, in the order of the first
\* occurrence of each sku; records without sku or with sku None are dropped
C12_OnePerSkuInOrder ==
  hq # NotComputed =>
    /\ ~hq.raised
    /\ [k \in 1..Len(hq.result) |-> Get(hq.result[k], "sku")] = FirstOccurrences(hp.products)

\* the position of the record from which a returned record was built
ResultPositions(k) == PositionsOf(hp.products, Get(hq.result[k], "sku"))

\* C13: with keep_latest the record returned for a sku is the last input
\* record with that sku, equal in every key and value; with keep_first it
\* is the first one
C13_KeepLatestKeepFirst ==
  (hq # NotComputed /\ hp.strategy \in {"keep_latest", "keep_first"}) =>
    /\ ~hq.raised
    /\ \A k \in 1..Len(hq.result) :
         LET sku == Get(hq.result[k], "sku")
         IN  hq.result[k] = hp.products[IF hp.strategy = "keep_latest"
                                        THEN LastPos(hp.products, sku)
                                        ELSE FirstPos(hp.products, sku)]

\* C13 witness: keep_latest on an input in which a sku occurs twice with
\* different records, the earlier one holding a key the later one lacks
C13_Witness ==
  /\ hq # NotComputed
  /\ hp.strategy = "keep_latest"
  /\ \E k \in 1..Len(hq.result) :
       LET sku   == Get(hq.result[k], "sku")
           first == hp.products[FirstPos(hp.products, sku)]
           last  == hp.products[LastPos(hp.products, sku)]
       IN  /\ "stock" \in DOMAIN first
           /\ "stock" \notin DOMAIN last
           /\ hq.result[k] = last

\* the values of a key in the records of the given positions, in input
\* order, without the missing and the None ones
RECURSIVE ValuesOf(_, _, _)
ValuesOf(products, positions, key) ==
  IF positions = {} THEN <<>>
  ELSE LET m == CHOOSE x \in positions : \A y \in positions : x >= y
           v == Get(products[m], key)
       IN  ValuesOf(products, positions \ {m}, key) \o (IF v = None THEN <<>> ELSE <<v>>)

RECURSIVE SumOf(_)
SumOf(vals) == IF vals = <<>> THEN 0 ELSE vals[1].n + SumOf(Tail(vals))

RECURSIVE UnionOf(_)
UnionOf(vals) ==
  IF vals = <<>> THEN <<>>
  ELSE DictUnion(UnionOf(SubSeq(vals, 1, Len(vals) - 1)), vals[Len(vals)].m)

\* C14: with merge the record returned for a sku has the sum of the stocks
\* of the input records of the sku, the union of their attribute maps with
\* the later value winning on a shared key, and for every other key the
\* latest value that is not None; a None never replaces a value
C14_MergeFields ==
  (hq # NotComputed /\ hp.strategy = "merge") =>
    /\ ~hq.raised
    /\ \A k \in 1..Len(hq.result) :
         LET r == hq.result[k]
             V(key) == ValuesOf(hp.products, ResultPositions(k), key)
         IN  /\ V("stock") # <<>> => Get(r, "stock") = IntVal(SumOf(V("stock")))
             /\ V("attributes") # <<>> => Get(r, "attributes") = DictVal(UnionOf(V("attributes")))
             /\ \A key \in {"sku", "name"} :
                  Get(r, key) = (IF V(key) = <<>> THEN None ELSE V(key)[Len(V(key))])

(***************************************************************************)
(* ProductValidator.validate                                               *)
(***************************************************************************)

\* the values of a raw product: a str is modelled by the length of
\* str(value).strip(); a price that Decimal(str(price)) parses (int, float,
\* Decimal or numeric str) by its value in thousandths, or NaN; a stock
\* that int(stock) parses (int or numeric str) by its value
Text(n) == [kind |-> "str", len |-> n]
PriceNum(m) == [kind |-> "num", mills |-> m, nan |-> FALSE]
PriceNaN == [kind |-> "num", mills |-> 0, nan |-> TRUE]
StockNum(n) == [kind |-> "int", n |-> n]
OtherType == [kind |-> "other"]

\* the defaults of ProductValidator.__init__ and the literal of _validate_sku
min_price == 10
max_name_length == 500
max_description_length == 5000
max_sku_length == 100

REQUIRED_FIELDS == <<"sku", "name", "category", "price", "stock">>

\* isinstance(value, expected_types)
TypeOk(field_name, value) ==
  IF field_name = "price" THEN value.kind \in {"num", "str"}
  ELSE IF field_name = "stock" THEN value.kind \in {"int", "str"}
  ELSE value.kind = "str"

NewResult == [is_valid |-> TRUE, errors |-> <<>>, warnings |-> <<>>, raised |-> FALSE]

add_error(result, field_name) ==
  [result EXCEPT !.errors = Append(@, field_name), !.is_valid = FALSE]

\* mutant of add_warning: a warning invalidates the record
add_warningInvalidates(result, field_name) ==
  [result EXCEPT !.warnings = Append(@, field_name), !.is_valid = FALSE]

add_warning(result, field_name) ==
  [result EXCEPT !.warnings = Append(@, field_name)]

RECURSIVE validate_required_fields(_, _, _)
validate_required_fields(data, result, k) ==
  IF k > Len(REQUIRED_FIELDS) THEN result
  ELSE LET field_name == REQUIRED_FIELDS[k]
           value == Get(data, field_name)
           r == IF value = None \/ ~TypeOk(field_name, value)
                THEN add_error(result, field_name)
                ELSE result
       IN  validate_required_fields(data, r, k + 1)

validate_sku(sku, result) ==
  IF sku = None THEN result
  ELSE IF sku.len = 0 THEN add_error(result, "sku")
  ELSE IF sku.len > max_sku_length THEN add_error(result, "sku")
  ELSE result

validate_name(name, result) ==
  IF name = None THEN result
  ELSE IF name.len = 0 THEN add_error(result, "name")
  ELSE IF name.len > max_name_length THEN add_warning(result, "name")
  ELSE result

\* mutant of validate_price: a price of zero passes
validate_priceZeroPasses(price, result) ==
  IF price = None THEN result
  ELSE IF price.kind # "num" THEN add_error(result, "price")
  ELSE IF price.nan THEN [result EXCEPT !.raised = TRUE]
  ELSE IF price.mills < 0 THEN add_error(result, "price")
  ELSE IF price.mills < min_price THEN add_warning(result, "price")
  ELSE result

\* _validate_price; comparing a NaN Decimal with 0 raises InvalidOperation
\* outside the try block
validate_price(price, result) ==
  IF price = None THEN result
  ELSE IF price.kind # "num" THEN add_error(result, "price")
  ELSE IF price.nan THEN [result EXCEPT !.raised = TRUE]
  ELSE IF price.mills <= 0 THEN add_error(result, "price")
  ELSE IF price.mills < min_price THEN add_warning(result, "price")
  ELSE result

\* _validate_stock, require_positive_stock = False
validate_stock(stock, result) ==
  IF stock = None THEN result
  ELSE IF stock.kind # "int" THEN add_error(result, "stock")
  ELSE IF stock.n < 0 THEN add_error(result, "stock")
  ELSE result

validate_description(description, result) ==
  IF description = None THEN result
  ELSE IF description.len > max_description_length THEN add_warning(result, "description")
  ELSE result

\* validate: the specific validations run only if no required field is
\* missing or of a wrong type
validate(data) ==
  LET r0 == validate_required_fields(data, NewResult, 1)
      r1 == validate_sku(Get(data, "sku"), r0)
      r2 == validate_name(Get(data, "name"), r1)
      r3 == validate_price(Get(data, "price"), r2)
      r4 == IF r3.raised THEN r3 ELSE validate_stock(Get(data, "stock"), r3)
      r5 == IF r4.raised THEN r4 ELSE validate_description(Get(data, "description"), r4)
  IN  IF ~r0.is_valid THEN r0 ELSE r5

\* the raw products: every field missing, None, of a wrong type, or with a
\* value on either side of each threshold of the validator
Missing == [kind |-> "missing"]
RawValues ==
  [sku |-> {Missing, None, Text(0), Text(1), Text(max_sku_length + 1)},
   name |-> {Missing, Text(0), Text(1), Text(max_name_length + 1)},
   category |-> {Missing, Text(1)},
   price |-> {Missing, PriceNum(0 - 1000), PriceNum(0), PriceNum(min_price - 5),
              PriceNum(min_price), PriceNum(1000), PriceNaN, Text(3), OtherType},
   stock |-> {Missing, StockNum(0 - 5), StockNum(0), StockNum(10), Text(1), OtherType},
   description |-> {Missing, None, Text(max_description_length + 1)}]

RawProduct(choice) ==
  [key \in {k \in DOMAIN choice : choice[k] # Missing} |-> choice[key]]

RawProducts ==
  {RawProduct(choice) :
     choice \in [sku : RawValues.sku, name : RawValues.name, category : RawValues.category,
                 price : RawValues.price, stock : RawValues.stock,
                 description : RawValues.description]}

InitValidate ==
  /\ pg = <<>>
  /\ usedIds = {}
  /\ index = <<>>
  /\ run = IdleRun
  /\ rec = IdleRec
  /\ envOps = 0
  /\ cmd = NoCmd
  /\ hp \in RawProducts
  /\ hq = NotComputed

Validate ==
  /\ hq = NotComputed
  /\ hq' = validate(hp)
  /\ UNCHANGED <<pg, usedIds, index, run, rec, envOps, cmd, hp>>

NextValidate == Validate

SpecValidate == InitValidate /\ [][NextValidate]_vars

HasError(result, field_name) == \E k \in 1..Len(result.errors) : result.errors[k] = field_name
IsNumber(v) == v # None /\ v.kind \in {"num", "int"} /\ (v.kind = "num" => ~v.nan)
NumberOf(v) == IF v.kind = "num" THEN v.mills ELSE v.n
NonEmptyText(v) == v # None /\ v.kind = "str" /\ v.len > 0
RequiredPresent(data) ==
  \A k \in 1..Len(REQUIRED_FIELDS) :
    Get(data, REQUIRED_FIELDS[k]) # None /\ TypeOk(REQUIRED_FIELDS[k], Get(data, REQUIRED_FIELDS[k]))

C16_ValidIffNoErrors ==
  (hq # NotComputed /\ ~hq.raised) =>
    /\ hq.is_valid <=> (hq.errors = <<>>)
    /\ (RequiredPresent(hp) /\ hq.errors = <<>> /\ hq.warnings # <<>>) => hq.is_valid

\* C16 witness: a record with a price below min_price, an over-length name
\* and an over-length description got three warnings and is valid
C16_Witness ==
  /\ hq # NotComputed
  /\ hq.is_valid
  /\ hq.errors = <<>>
  /\ hq.warnings = <<"name", "price", "description">>

(***************************************************************************)
(* The command surface: APIToPostgresPipeline.run,                         *)
(* PostgresToQdrantPipeline.run, PostgresToQdrantPipeline.sync_deletions   *)
(* and run_full_sync, with the clients their pipelines hold.  One command  *)
(* is executed per behaviour.  A step that talks to an external            *)
(* collaborator either succeeds or raises.                                 *)
(***************************************************************************)

\* the clients: the httpx client of the APIExtractor, the engine of the
\* PostgresLoader of the transform-and-load pipeline, and the engine, the
\* AsyncQdrantClient and the httpx client of the embedding sync pipeline
ClientNames == {"extractor", "loader", "postgres", "qdrant", "embedder"}

\* no client holds a connection
NoClients == [c \in ClientNames |-> "unopened"]

\* the client holds connections
Opened(m, c) == [m EXCEPT !.clients[c] = "open"]

\* close(): the connections the client holds, if any, are released
Closed(m, c) == [m EXCEPT !.clients[c] = IF @ = "open" THEN "closed" ELSE @]

\* an external collaborator failed during the command
Failed(m) == [m EXCEPT !.collaborator_failed = TRUE]

\* the longest list of raw products the source API hands out
MaxRaw == 2

\* a well-formed raw product with the sku of the given length
GoodProduct(n) ==
  [sku |-> Text(n), name |-> Text(1), category |-> Text(1),
   price |-> PriceNum(1000), stock |-> StockNum(10)]

\* the raw products of the source API: two well-formed ones, one the
\* validator rejects, one on which the validator raises
ApiProducts ==
  { GoodProduct(1), GoodProduct(2),
    [GoodProduct(1) EXCEPT !.price = PriceNum(0)],
    [GoodProduct(2) EXCEPT !.price = PriceNaN],
    [GoodProduct(2) EXCEPT !.price = PriceNum(min_price - 6)] }

ApiResponses == UNION {[1..n -> ApiProducts] : n \in 0..MaxRaw}

\* a command starts: its pipelines are constructed, no __aenter__ has run.
\* The full sync calls run() with the default skip_invalid = True.
CmdStart ==
  /\ cmd = NoCmd
  /\ \E kind \in {"load", "sync", "deletions", "full"}, skip \in BOOLEAN :
       /\ (kind = "full" => skip)
       /\ (kind \in {"sync", "deletions"} => skip)
       /\ cmd' = [pc |-> IF kind \in {"load", "full"} THEN "extractor_enter"
                         ELSE "postgres_enter",
                  kind |-> kind, skip_invalid |-> skip, clients |-> NoClients,
                  raw_products |-> <<>>, valid_products |-> <<>>,
                  invalid_products |-> <<>>,
                  normalized_products |-> <<>>, errors |-> <<>>,
                  load_ran |-> FALSE, load_errors |-> {}, loaded |-> <<>>,
                  collaborator_failed |-> FALSE,
                  api_result |-> NoResult, result |-> NoResult,
                  raised |-> FALSE]
  /\ UNCHANGED <<pg, usedIds, index, run, rec, envOps, hp, hq>>

\* PipelineResult of the except branch of APIToPostgresPipeline.run
ApiFailureResult ==
  [returned |-> TRUE, success |-> FALSE, extracted |-> 0, validated |-> 0,
   normalized |-> 0, loaded |-> 0, errors |-> <<"exception">>, warnings |-> 0]

\* mutant of ApiReturn: run_full_sync goes on with the embedding sync
\* whatever the first stage returned
ApiReturnNoAbort(m, result) ==
  IF m.kind = "full"
  THEN [m EXCEPT !.pc = "postgres_enter", !.api_result = result]
  ELSE [m EXCEPT !.pc = "done", !.api_result = result, !.result = result]

\* APIToPostgresPipeline.run hands its result back: to the caller of the
\* command, or to run_full_sync, which goes on with the embedding sync
\* only after a successful first stage
ApiReturn(m, result) ==
  IF m.kind = "full" /\ result.success
  THEN [m EXCEPT !.pc = "postgres_enter", !.api_result = result]
  ELSE [m EXCEPT !.pc = "done", !.api_result = result, !.result = result]

\* async with self.extractor: __aenter__ creates the httpx client
ApiExtractorEnter ==
  /\ cmd.pc = "extractor_enter"
  /\ cmd' = [Opened(cmd, "extractor") EXCEPT !.pc = "fetch"]
  /\ UNCHANGED <<pg, usedIds, index, run, rec, envOps, hp, hq>>

\* fetch_all_products answers and __aexit__ closes the client; no product
\* ends the run with a warning
ApiFetchOk ==
  /\ cmd.pc = "fetch"
  /\ \E raw \in ApiResponses :
       LET m == [Closed(cmd, "extractor") EXCEPT !.raw_products = raw]
       IN  cmd' = IF raw = <<>>
                  THEN ApiReturn(m, [ApiFailureResult EXCEPT !.success = TRUE,
                                       !.errors = <<>>, !.warnings = 1])
                  ELSE [m EXCEPT !.pc = "transform"]
  /\ UNCHANGED <<pg, usedIds, index, run, rec, envOps, hp, hq>>

\* fetch_all_products raises: __aexit__ closes the client, the except
\* branch returns
ApiFetchFail ==
  /\ cmd.pc = "fetch"
  /\ cmd' = ApiReturn(Failed(Closed(cmd, "extractor")), ApiFailureResult)
  /\ UNCHANGED <<pg, usedIds, index, run, rec, envOps, hp, hq>>

\* the subsequence of s at the positions of keep
RECURSIVE SelectIdx(_, _)
SelectIdx(s, keep) ==
  IF s = <<>> THEN <<>>
  ELSE LET rest == SelectIdx(SubSeq(s, 1, Len(s) - 1), keep)
       IN  IF Len(s) \in keep THEN Append(rest, s[Len(s)]) ELSE rest

\* validate_batch: the products that pass, and those that do not; with
\* skip_invalid = False an invalid product is in both lists
validate_batch(products, skip_invalid) ==
  LET invalid == {k \in 1..Len(products) : ~validate(products[k]).is_valid}
  IN  [raised |-> \E k \in 1..Len(products) : validate(products[k]).raised,
       valid_products |-> SelectIdx(products, IF skip_invalid
                                              THEN (1..Len(products)) \ invalid
                                              ELSE 1..Len(products)),
       invalid_products |-> SelectIdx(products, invalid)]

\* the error strings run() collects from the invalid products, each
\* modelled by the field it is tagged with
RECURSIVE ValidationErrors(_)
ValidationErrors(invalid_products) ==
  IF invalid_products = <<>> THEN <<>>
  ELSE ValidationErrors(SubSeq(invalid_products, 1, Len(invalid_products) - 1))
         \o validate(invalid_products[Len(invalid_products)]).errors

\* normalize_price of a number, price_multiplier = 1:
\* Decimal(str(price)).quantize(Decimal("0.00"), rounding=ROUND_HALF_UP),
\* from thousandths to cents
normalize_price_number(price) ==
  LET m == price.mills
  IN  [kind |-> "decimal",
       cents |-> IF m >= 0 THEN (m + 5) \div 10 ELSE 0 - ((5 - m) \div 10)]

\* normalize_product: the price is quantized, the stock is max(0, int(stock));
\* the texts of the model are in the form the cleaner and normalize_category
\* leave them in
normalize_product(product) ==
  [key \in DOMAIN product |->
     CASE key = "price" /\ product[key].kind = "num" -> normalize_price_number(product[key])
       [] key = "stock" /\ product[key].kind = "int" ->
            StockNum(IF product[key].n > 0 THEN product[key].n ELSE 0)
       [] OTHER -> product[key]]

\* normalize_batch with handle_duplicates under the default keep_latest
normalize_batch(products) ==
  handle_duplicates([k \in 1..Len(products) |-> normalize_product(products[k])],
                    "keep_latest").result

\* validate, clean, normalize: an exception of the validator ends the run
\* in the except branch; the errors of the invalid products are collected
ApiTransform ==
  /\ cmd.pc = "transform"
  /\ LET v == validate_batch(cmd.raw_products, cmd.skip_invalid)
     IN  cmd' = IF v.raised THEN ApiReturn(cmd, ApiFailureResult)
                ELSE [cmd EXCEPT
                        !.pc = "loader_enter",
                        !.valid_products = v.valid_products,
                        !.invalid_products = v.invalid_products,
                        !.errors = ValidationErrors(v.invalid_products),
                        !.normalized_products = normalize_batch(v.valid_products)]
  /\ UNCHANGED <<pg, usedIds, index, run, rec, envOps, hp, hq>>

\* async with self.loader: init_db creates the tables
ApiLoaderEnter ==
  /\ cmd.pc = "loader_enter"
  /\ cmd' = [Opened(cmd, "loader") EXCEPT !.pc = "load"]
  /\ UNCHANGED <<pg, usedIds, index, run, rec, envOps, hp, hq>>

\* init_db raises, before the engine has a connection or with a connection
\* back in its pool: __aexit__ is not called, the except branch returns
ApiLoaderEnterFail ==
  /\ cmd.pc = "loader_enter"
  /\ \E connected \in BOOLEAN :
       cmd' = ApiReturn(Failed(IF connected THEN Opened(cmd, "loader") ELSE cmd),
                        ApiFailureResult)
  /\ UNCHANGED <<pg, usedIds, index, run, rec, envOps, hp, hq>>

\* upsert_batch: the products of load_errors fail and are reported, the
\* others are written; __aexit__ disposes the engine; the result is built
ApiLoad ==
  /\ cmd.pc = "load"
  /\ \E failed \in SUBSET (1..Len(cmd.normalized_products)) :
       LET n == Len(cmd.normalized_products)
           errors == cmd.errors \o [k \in 1..Cardinality(failed) |-> "load"]
           m == [Closed(cmd, "loader") EXCEPT
                   !.load_ran = TRUE, !.load_errors = failed, !.errors = errors,
                   !.collaborator_failed = (failed # {}),
                   !.loaded = SelectIdx(cmd.normalized_products, (1..n) \ failed)]
       IN  cmd' = ApiReturn(m,
                    [returned |-> TRUE, success |-> Len(errors) = 0,
                     extracted |-> Len(cmd.raw_products),
                     validated |-> Len(cmd.valid_products),
                     normalized |-> n, loaded |-> n - Cardinality(failed),
                     errors |-> errors, warnings |-> 0])
  /\ UNCHANGED <<pg, usedIds, index, run, rec, envOps, hp, hq>>

\* the session of upsert_batch raises: __aexit__ disposes the engine, the
\* except branch returns
ApiLoadFail ==
  /\ cmd.pc = "load"
  /\ cmd' = ApiReturn(Failed(Closed(cmd, "loader")), ApiFailureResult)
  /\ UNCHANGED <<pg, usedIds, index, run, rec, envOps, hp, hq>>

\* the EmbeddingPipelineResult of PostgresToQdrantPipeline.run as the
\* caller of the command sees it: the flag and the number of errors
SyncResult(success) ==
  [returned |-> TRUE, success |-> success, errors |-> IF success THEN 0 ELSE 1]

\* PostgresToQdrantPipeline.run hands its result back
SyncReturn(m, result) == [m EXCEPT !.pc = "done", !.result = result]

\* run(), async with self.postgres_loader: init_db creates the tables
SyncPostgresEnter ==
  /\ cmd.pc = "postgres_enter" /\ cmd.kind \in {"sync", "full"}
  /\ cmd' = [Opened(cmd, "postgres") EXCEPT !.pc = "qdrant_enter"]
  /\ UNCHANGED <<pg, usedIds, index, run, rec, envOps, hp, hq>>

\* run(): init_db raises, __aexit__ is not called, the except branch returns
SyncPostgresEnterFail ==
  /\ cmd.pc = "postgres_enter" /\ cmd.kind \in {"sync", "full"}
  /\ \E connected \in BOOLEAN :
       cmd' = SyncReturn(Failed(IF connected THEN Opened(cmd, "postgres") ELSE cmd),
                         SyncResult(FALSE))
  /\ UNCHANGED <<pg, usedIds, index, run, rec, envOps, hp, hq>>

\* run(), async with self.qdrant_loader: _get_client creates the client,
\* ensure_collection finds or creates the collection
SyncQdrantEnter ==
  /\ cmd.pc = "qdrant_enter" /\ cmd.kind \in {"sync", "full"}
  /\ cmd' = [Opened(cmd, "qdrant") EXCEPT !.pc = "embedder_enter"]
  /\ UNCHANGED <<pg, usedIds, index, run, rec, envOps, hp, hq>>

\* run(): ensure_collection raises after _get_client created the client;
\* the __aexit__ of the QdrantLoader is not called, that of the
\* PostgresLoader is; the except branch returns
SyncQdrantEnterFail ==
  /\ cmd.pc = "qdrant_enter" /\ cmd.kind \in {"sync", "full"}
  /\ cmd' = SyncReturn(Failed(Closed(Opened(cmd, "qdrant"), "postgres")),
                       SyncResult(FALSE))
  /\ UNCHANGED <<pg, usedIds, index, run, rec, envOps, hp, hq>>

\* run(), async with self.embedding_generator: __aenter__ creates the
\* httpx client
SyncEmbedderEnter ==
  /\ cmd.pc = "embedder_enter"
  /\ cmd' = [Opened(cmd, "embedder") EXCEPT !.pc = "body"]
  /\ UNCHANGED <<pg, usedIds, index, run, rec, envOps, hp, hq>>

\* the three __aexit__ of run(), innermost first
SyncExits(m) == Closed(Closed(Closed(m, "embedder"), "qdrant"), "postgres")

\* the body of run() reaches its return statement
SyncBodyOk ==
  /\ cmd.pc = "body" /\ cmd.kind \in {"sync", "full"}
  /\ cmd' = SyncReturn(SyncExits(cmd), SyncResult(TRUE))
  /\ UNCHANGED <<pg, usedIds, index, run, rec, envOps, hp, hq>>

\* a call of the body of run() raises: the except branch returns
SyncBodyFail ==
  /\ cmd.pc = "body" /\ cmd.kind \in {"sync", "full"}
  /\ cmd' = SyncReturn(Failed(SyncExits(cmd)), SyncResult(FALSE))
  /\ UNCHANGED <<pg, usedIds, index, run, rec, envOps, hp, hq>>

\* sync_deletions has no try statement: an exception leaves the command
DelRaise(m) == [Failed(m) EXCEPT !.pc = "done", !.raised = TRUE]

\* sync_deletions, async with self.postgres_loader
DelPostgresEnter ==
  /\ cmd.pc = "postgres_enter" /\ cmd.kind = "deletions"
  /\ cmd' = [Opened(cmd, "postgres") EXCEPT !.pc = "qdrant_enter"]
  /\ UNCHANGED <<pg, usedIds, index, run, rec, envOps, hp, hq>>

\* sync_deletions: init_db raises
DelPostgresEnterFail ==
  /\ cmd.pc = "postgres_enter" /\ cmd.kind = "deletions"
  /\ \E connected \in BOOLEAN :
       cmd' = DelRaise(IF connected THEN Opened(cmd, "postgres") ELSE cmd)
  /\ UNCHANGED <<pg, usedIds, index, run, rec, envOps, hp, hq>>

\* sync_deletions, async with self.qdrant_loader
DelQdrantEnter ==
  /\ cmd.pc = "qdrant_enter" /\ cmd.kind = "deletions"
  /\ cmd' = [Opened(cmd, "qdrant") EXCEPT !.pc = "body"]
  /\ UNCHANGED <<pg, usedIds, index, run, rec, envOps, hp, hq>>

\* sync_deletions: ensure_collection raises after _get_client
DelQdrantEnterFail ==
  /\ cmd.pc = "qdrant_enter" /\ cmd.kind = "deletions"
  /\ cmd' = DelRaise(Closed(Opened(cmd, "qdrant"), "postgres"))
  /\ UNCHANGED <<pg, usedIds, index, run, rec, envOps, hp, hq>>

\* the body of sync_deletions returns the number of skus it deleted
DelBodyOk ==
  /\ cmd.pc = "body" /\ cmd.kind = "deletions"
  /\ \E deleted \in 0..1 :
       cmd' = [Closed(Closed(cmd, "qdrant"), "postgres") EXCEPT
                 !.pc = "done", !.result = [returned |-> TRUE, deleted |-> deleted]]
  /\ UNCHANGED <<pg, usedIds, index, run, rec, envOps, hp, hq>>

\* a call of the body of sync_deletions raises
DelBodyFail ==
  /\ cmd.pc = "body" /\ cmd.kind = "deletions"
  /\ cmd' = DelRaise(Closed(Closed(cmd, "qdrant"), "postgres"))
  /\ UNCHANGED <<pg, usedIds, index, run, rec, envOps, hp, hq>>

InitCmd ==
  /\ pg = <<>>
  /\ usedIds = {}
  /\ index = <<>>
  /\ run = IdleRun
  /\ rec = IdleRec
  /\ envOps = 0
  /\ cmd = NoCmd
  /\ hp = NoRow
  /\ hq = NoRow

NextCmd ==
  \/ CmdStart
  \/ ApiExtractorEnter \/ ApiFetchOk \/ ApiFetchFail \/ ApiTransform
  \/ ApiLoaderEnter \/ ApiLoaderEnterFail \/ ApiLoad \/ ApiLoadFail
  \/ SyncPostgresEnter \/ SyncPostgresEnterFail
  \/ SyncQdrantEnter \/ SyncQdrantEnterFail \/ SyncEmbedderEnter
  \/ SyncBodyOk \/ SyncBodyFail
  \/ DelPostgresEnter \/ DelPostgresEnterFail
  \/ DelQdrantEnter \/ DelQdrantEnterFail
  \/ DelBodyOk \/ DelBodyFail

SpecCmd == InitCmd /\ [][NextCmd]_vars

\* C17: a transform-and-load run returns success exactly when its error
\* list is empty, and a run with skip_invalid in which the validator
\* rejected some records and every accepted record loaded without error
\* returns success
C17_SuccessIffNoErrors ==
  (cmd.pc # "none" /\ cmd.api_result.returned) =>
     /\ cmd.api_result.success <=> (cmd.api_result.errors = <<>>)
     /\ (/\ cmd.skip_invalid
         /\ cmd.invalid_products # <<>>
         /\ cmd.load_ran
         /\ cmd.load_errors = {}) => cmd.api_result.success

\* C18: every command hands a structured result to its caller and never
\* raises; a failure of an external collaborator during the command gives a
\* failed result
C18_CommandsNeverRaise ==
  cmd.pc = "done" =>
     /\ ~cmd.raised
     /\ cmd.result.returned
     /\ "success" \in DOMAIN cmd.result
     /\ cmd.collaborator_failed => ~cmd.result.success

\* C19: an embedding sync run in which the provider call of at least one
\* chunk failed returns a result whose error list is not empty and whose
\* success flag is false
C19_ChunkFailureSurfaced ==
  [][(ReturnStep /\ (run.failed_chunks # {} \/ ChunkFailStep))
       => (~run'.result.success /\ run'.result.errors > 0)]_vars

\* C20: when the command returns, no client its pipelines opened is still
\* open
C20_ClientsClosedAtReturn ==
  cmd.pc = "done" => \A c \in ClientNames : cmd.clients[c] # "open"

(***************************************************************************)
(* Outbound calls under the tenacity retry decorator:                      *)
(* APIExtractor._make_request and EmbeddingGenerator._call_voyage_api.     *)
(* hp is the call: the decorated function and what the network does on     *)
(* each attempt; hq is the retry loop.                                     *)
(***************************************************************************)

\* stop_after_attempt(3)
stop_after_attempt == 3

\* what an attempt meets: an answer below 400, a refused connection, a
\* timeout, an answer with a 4xx/5xx status
Outcomes == {"ok", "connect", "timeout", "status"}

\* the body of _make_request: httpx.ConnectError and httpx.TimeoutException
\* are caught and APIConnectionError is raised in their place
make_request(outcome) ==
  CASE outcome = "ok" -> [raised |-> FALSE, exception |-> "none"]
    [] outcome = "connect" -> [raised |-> TRUE, exception |-> "APIConnectionError"]
    [] outcome = "timeout" -> [raised |-> TRUE, exception |-> "APIConnectionError"]
    [] outcome = "status" -> [raised |-> TRUE, exception |-> "APIResponseError"]

\* the body of _call_voyage_api: only httpx.HTTPStatusError is caught
call_voyage_api_once(outcome) ==
  CASE outcome = "ok" -> [raised |-> FALSE, exception |-> "none"]
    [] outcome = "connect" -> [raised |-> TRUE, exception |-> "httpx.ConnectError"]
    [] outcome = "timeout" -> [raised |-> TRUE, exception |-> "httpx.TimeoutException"]
    [] outcome = "status" -> [raised |-> TRUE, exception |-> "EmbeddingGeneratorError"]

\* retry_if_exception_type((httpx.ConnectError, httpx.TimeoutException));
\* neither APIConnectionError nor EmbeddingGeneratorError derives from them
retry_if_exception_type(exception) ==
  exception \in {"httpx.ConnectError", "httpx.TimeoutException"}

\* one pass of the loop of the decorator around an attempt that gave r
AfterAttempt(loop, r) ==
  LET n == loop.attempts + 1
  IN  IF ~r.raised
      THEN [pc |-> "returned", attempts |-> n, exception |-> "none"]
      ELSE IF retry_if_exception_type(r.exception) /\ n < stop_after_attempt
      THEN [pc |-> "calling", attempts |-> n, exception |-> "none"]
      ELSE [pc |-> "raised", attempts |-> n, exception |-> r.exception]

InitRetry ==
  /\ pg = <<>>
  /\ usedIds = {}
  /\ index = <<>>
  /\ run = IdleRun
  /\ rec = IdleRec
  /\ envOps = 0
  /\ cmd = NoCmd
  /\ hp \in [function : {"_make_request", "_call_voyage_api"},
             outcomes : [1..stop_after_attempt -> Outcomes]]
  /\ hq = [pc |-> "calling", attempts |-> 0, exception |-> "none"]

\* an attempt of _make_request
MakeRequestAttempt ==
  /\ hp.function = "_make_request"
  /\ hq.pc = "calling"
  /\ hq' = AfterAttempt(hq, make_request(hp.outcomes[hq.attempts + 1]))
  /\ UNCHANGED <<pg, usedIds, index, run, rec, envOps, cmd, hp>>

\* an attempt of _call_voyage_api
CallVoyageAttempt ==
  /\ hp.function = "_call_voyage_api"
  /\ hq.pc = "calling"
  /\ hq' = AfterAttempt(hq, call_voyage_api_once(hp.outcomes[hq.attempts + 1]))
  /\ UNCHANGED <<pg, usedIds, index, run, rec, envOps, cmd, hp>>

NextRetry == MakeRequestAttempt \/ CallVoyageAttempt

SpecRetry == InitRetry /\ [][NextRetry]_vars

\* C21: a connection failure or timeout propagates only from the third
\* attempt, every attempt that was followed by another one met a connection
\* failure or a timeout, and there are never more than three attempts
C21_TransientRetried ==
  /\ hq.attempts <= stop_after_attempt
  /\ \A k \in 1..hq.attempts :
        (k < hq.attempts \/ hq.pc = "calling") => hp.outcomes[k] \in {"connect", "timeout"}
  /\ (hq.pc = "raised" /\ hp.outcomes[hq.attempts] \in {"connect", "timeout"})
        => hq.attempts = stop_after_attempt

(***************************************************************************)
(* TextCleaner: clean_text, clean_sku and clean_product.  A string is the  *)
(* sequence of its characters.                                             *)
(***************************************************************************)

\* the characters of the model: letters and digits, the hyphen and the
\* underscore, the blank, "!" (kept by clean_text, removed by clean_sku) and
\* "*", "@", "#" ("*" is removed by both, "@" and "#" by clean_sku)
LowerLetters == {"a", "s", "k", "u"}
UpperLetters == {"A", "S", "K", "U"}
WordChars == LowerLetters \cup UpperLetters \cup {"0", "1", "_"}

\* [^\w\s\-.,;:()"'...!...]: what SPECIAL_CHARS_PATTERN leaves in place
TextAllowed == WordChars \cup {" ", "-", "!", "@", "#"}

\* [^\w\-]: what the pattern of clean_sku leaves in place
SkuAllowed == WordChars \cup {"-"}

\* str.strip()
RECURSIVE Strip(_)
Strip(s) ==
  IF s = <<>> THEN s
  ELSE IF Head(s) = " " THEN Strip(Tail(s))
  ELSE IF s[Len(s)] = " " THEN Strip(SubSeq(s, 1, Len(s) - 1))
  ELSE s

\* str.upper()
Upper(s) ==
  [k \in 1..Len(s) |->
     CASE s[k] = "a" -> "A" [] s[k] = "s" -> "S" [] s[k] = "k" -> "K"
       [] s[k] = "u" -> "U" [] OTHER -> s[k]]

\* pattern.sub("", s) for a pattern that matches every character not in chars
Only(s, chars) == LET InChars(c) == c \in chars IN SelectSeq(s, InChars)

\* MULTIPLE_SPACES_PATTERN.sub(" ", s): a run of blanks becomes one blank
RECURSIVE CollapseSpaces(_)
CollapseSpaces(s) ==
  IF Len(s) < 2 THEN s
  ELSE IF s[1] = " " /\ s[2] = " " THEN CollapseSpaces(Tail(s))
  ELSE <<s[1]>> \o CollapseSpaces(Tail(s))

\* clean_text with the default configuration; NFKC leaves the characters of
\* the model as they are
clean_text(text) ==
  IF text = None THEN None
  ELSE LET t0 == Strip(text.s)
           t1 == CollapseSpaces(Only(t0, TextAllowed))
       IN  IF t0 = <<>> THEN None
           ELSE IF t1 # <<>> THEN StrVal(Strip(t1)) ELSE None

clean_sku(sku) ==
  IF sku = None THEN None
  ELSE LET sku_clean == Only(Upper(Strip(sku.s)), SkuAllowed)
       IN  IF sku_clean # <<>> THEN StrVal(sku_clean) ELSE None

\* Python's a or b
Or(a, b) == IF a = None \/ a = StrVal(<<>>) THEN b ELSE a

\* clean_product on a product dict with the keys sku, name and description
clean_product(product) ==
  [key \in DOMAIN product |->
     CASE key = "name" -> Or(clean_text(product[key]), StrVal(<<>>))
       [] key = "description" -> clean_text(product[key])
       [] key = "sku" -> Or(clean_sku(product[key]), Get(product, "sku"))
       [] OTHER -> product[key]]

\* the longest string given to the cleaner
MaxCleanLen == 3

CleanChars == {"a", "1", "-", " ", "*", "!"}

\* None, every string of up to MaxCleanLen characters, and the skus
\* "sku-001" and "sku 001!@#"
CleanInputs ==
  {None}
    \cup {StrVal(s) : s \in UNION {[1..n -> CleanChars] : n \in 0..MaxCleanLen}}
    \cup {StrVal(<<"s", "k", "u", "-", "0", "0", "1">>),
          StrVal(<<"s", "k", "u", " ", "0", "0", "1", "!", "@", "#">>)}

InitClean ==
  /\ pg = <<>>
  /\ usedIds = {}
  /\ index = <<>>
  /\ run = IdleRun
  /\ rec = IdleRec
  /\ envOps = 0
  /\ cmd = NoCmd
  /\ hp \in CleanInputs
  /\ hq = NotComputed

\* clean_text(hp)
CleanText ==
  /\ hq = NotComputed
  /\ hq' = [computed |-> TRUE, function |-> "clean_text", result |-> clean_text(hp)]
  /\ UNCHANGED <<pg, usedIds, index, run, rec, envOps, cmd, hp>>

\* clean_product of a record whose sku, name and description are hp
CleanProduct ==
  /\ hq = NotComputed
  /\ hq' = [computed |-> TRUE, function |-> "clean_product",
            result |-> clean_product([sku |-> hp, name |-> hp, description |-> hp])]
  /\ UNCHANGED <<pg, usedIds, index, run, rec, envOps, cmd, hp>>

NextClean == CleanText \/ CleanProduct

SpecClean == InitClean /\ [][NextClean]_vars

\* C23: the sku of the cleaned record is the sku of the record in upper
\* case without the characters that are not alphanumerics, hyphen or
\* underscore
C23_SkuCleaned ==
  (hq.computed /\ hq.function = "clean_product" /\ hp # None) =>
     hq.result.sku = StrVal(Only(Upper(hp.s), SkuAllowed))

\* C24: clean_text gives None for None and for every text that is empty
\* once stripped, filtered, collapsed and trimmed, and never gives the empty
\* string
C24_EmptyIsNone ==
  (hq.computed /\ hq.function = "clean_text") =>
     /\ hq.result # StrVal(<<>>)
     /\ hp = None => hq.result = None
     /\ (hp # None /\ Strip(CollapseSpaces(Only(Strip(hp.s), TextAllowed))) = <<>>)
           => hq.result = None

\* C26: every record the transform with skip_invalid hands to the relational
\* store has a price above zero and a stock of at least zero
C26_CanonicalPriceStock ==
  (cmd.pc # "none" /\ cmd.skip_invalid) =>
     \A k \in 1..Len(cmd.normalized_products) :
        /\ cmd.normalized_products[k].price.cents > 0
        /\ cmd.normalized_products[k].stock.n >= 0

(***************************************************************************)
(* End to end on one sku: the product of sku "A" has been loaded and       *)
(* embedded by a run without failure (hp is the row as it was embedded);   *)
(* transform-and-load runs with skip_invalid bring raw records of that     *)
(* sku, and sync runs follow.                                              *)
(***************************************************************************)

\* transform-and-load runs of the scenario
MaxEdits == 1

\* contents that differ from the first in one field each: the name (two
\* ways), the description, the unit, a list-valued attribute, a string
\* attribute
EditContents ==
  { ContentX,
    [ContentX EXCEPT !.name = <<"a", "|">>],
    [ContentX EXCEPT !.description = Some(<<"|">>)],
    [ContentX EXCEPT !.name = <<"b">>],
    [ContentX EXCEPT !.unit = <<"k", "g">>],
    [ContentX EXCEPT !.attributes = (<<"a">> :> ListVal(<< <<"x">> >>))],
    [ContentX EXCEPT !.attributes = (<<"a">> :> StrVal(<<"x">>))] }

EditCatalog == [content : EditContents, price : {100}, stock : {0, 5}]

\* the raw record of the source API that carries d, with or without its sku,
\* as the validator sees it
RawOf(has_sku, d) ==
  LET fields == [name |-> Text(Len(d.content.name)),
                 category |-> Text(Len(d.content.category)),
                 price |-> PriceNum(d.price * 10), stock |-> StockNum(d.stock)]
  IN  IF has_sku THEN fields @@ [sku |-> Text(1)] ELSE fields

\* the index after a run without failure embedded the rows given
IndexOf(rows) ==
  UpsertPoints(<<>>, ChunkRecords(rows, [k \in 1..Len(rows) |->
                                           Vec(build_embedding_text(rows[k]))]))

InitEdit ==
  /\ \E d \in EditCatalog :
       /\ pg = upsert_product(<<>>, "A", d, 1)
       /\ hp = Row(1, "A", d)
       /\ index = IndexOf(<<Row(1, "A", d)>>)
  /\ usedIds = {1}
  /\ run = IdleRun
  /\ rec = IdleRec
  /\ envOps = 0
  /\ cmd = NoCmd
  /\ hq = NotComputed

\* APIToPostgresPipeline.run(skip_invalid=True) on one raw record of sku
\* "A", between two sync runs: validate_batch keeps or rejects it, and
\* upsert_batch writes it if it was kept; hq is what the run met
EditLoad ==
  /\ envOps < MaxEdits
  /\ run.pc \in {"idle", "done"}
  /\ \E has_sku \in BOOLEAN, d \in EditCatalog :
       LET v == validate_batch(<<RawOf(has_sku, d)>>, TRUE)
       IN  /\ pg' = IF v.valid_products # <<>> THEN upsert_product(pg, "A", d, 0) ELSE pg
           /\ hq' = [computed |-> TRUE, rejected |-> v.invalid_products # <<>>, d |-> d]
  /\ envOps' = envOps + 1
  /\ UNCHANGED <<usedIds, index, run, rec, cmd, hp>>

NextEdit ==
  \/ EditLoad
  \/ \E force \in BOOLEAN : SyncStart(force)
  \/ SyncClassify
  \/ SyncEmbedChunkOk
  \/ SyncEmbedChunkFail
  \/ SyncUpsertBatch
  \/ SyncUpsertFail
  \/ SyncPatch

SpecEdit == InitEdit /\ [][NextEdit]_vars

\* the index record of the product is still the one written from hp
EmbeddedFromHp(p) ==
  /\ p.id \in DOMAIN index
  /\ index[p.id].text = build_embedding_text(hp)
  /\ index[p.id].text_hash = compute_text_hash(hp)

\* name, description, category or a string attribute differs
ContentChanged(p, q) ==
  \/ p.name # q.name
  \/ p.description # q.description
  \/ p.category # q.category
  \/ StrAttrs(p) # StrAttrs(q)

C27_HashCoversEmbeddingText ==
  [][(/\ ReturnStep
      /\ ~run.force
      /\ run.failed_chunks = {}
      /\ ~ChunkFailStep
      /\ run'.result.success
      /\ get_all_products(pg) = run.all_products)
     => \A sku \in DOMAIN pg :
          /\ pg[sku].id \in DOMAIN index'
          /\ index'[pg[sku].id].text = build_embedding_text(pg[sku])]_vars

(***************************************************************************)
(* The sync engine together with run_for_products, the embedding sync of   *)
(* chosen skus.                                                            *)
(***************************************************************************)

\* run_for_products(skus, force_regenerate), start to return: the products
\* of the skus that exist are read, those that need it are embedded in one
\* chunk, whose provider call succeeds or fails, and upserted; it is taken
\* while no full run is under way
RunForProducts ==
  /\ run.pc \in {"idle", "done"}
  /\ \E skus \in SUBSET Skus, force \in BOOLEAN, chunk_ok \in BOOLEAN :
       LET Wanted(p) == p.sku \in skus
           products == SelectSeq(get_all_products(pg), Wanted)
           hashes == IF force THEN <<>> ELSE get_existing_hashes(index)
           Embed(p) == force \/ should_regenerate(p, hashes)
           products_to_embed == SelectSeq(products, Embed)
           embeddings == IF chunk_ok THEN IndexOf(products_to_embed) ELSE <<>>
       IN  /\ products_to_embed # <<>>
           /\ index' = embeddings @@ index
  /\ UNCHANGED <<pg, usedIds, run, rec, envOps, cmd, hp, hq>>

NextFrame == Next \/ RunForProducts

SpecFrame == Init /\ [][NextFrame]_vars

\* C25: a step that removes index records is a deletion of the reconciler,
\* and the sku of every record it removes is not among the skus the
\* reconciler read from the relational store
C25_DeletedOnlyByReconciler ==
  [][(DOMAIN index \ DOMAIN index' # {})
       => /\ rec.pc = "delete"
          /\ \A i \in DOMAIN index \ DOMAIN index' : index[i].sku \notin rec.pg_skus]_vars

\* C25 witness: the reconciler has deleted the record of a sku that was not
\* in the relational store when it read it
C25_Witness ==
  /\ rec.pc = "done"
  /\ rec.deleted > 0
  /\ \A sku \in rec.orphans : sku \notin IndexSkus(index)

\* C28: every product a sync run classifies metadata-only has an index
\* record under the point id of its product id, and that record is the
\* record of its sku
C28_PatchTargetExists ==
  [][ClassifyStep =>
       \A k \in 1..Len(run'.products_metadata_only) :
          LET p == run'.products_metadata_only[k]
          IN  /\ p.id \in DOMAIN index
              /\ index[p.id].sku = p.sku]_vars

\* update_metadata_batch as a whole: set_payload of price and stock on the
\* point of every update, in order
RECURSIVE update_metadata_batch(_, _)
update_metadata_batch(idx, products) ==
  IF products = <<>> THEN idx
  ELSE LET p == Head(products)
       IN  update_metadata_batch(set_payload(idx, p.id, ToFloat(p.price), p.stock),
                                 Tail(products))

\* a run returns with no chunk failure and no index write failure, no
\* reconciler has deleted points under it, and the relational store is as
\* the run read it
CleanReturnStep ==
  /\ ReturnStep
  /\ run.quiet
  /\ run'.result.success
  /\ run'.result.embeddings_generated = run'.result.products_needing_update
  /\ run'.result.embeddings_upserted = run'.result.embeddings_generated
  /\ get_all_products(pg') = run.all_products

\* C29: the non-forced run that follows a clean run over the unchanged
\* store classifies every product metadata-only (so it calls no provider),
\* and after its patches every index record of a sku of the store carries the
\* relational price and stock, with id, vector and hash as the first run
\* left them
C29_SyncIdempotent ==
  [][CleanReturnStep =>
       LET all    == get_all_products(pg')
           hashes == get_existing_hashes(index')
           after  == update_metadata_batch(index', all)
       IN  /\ \A k \in 1..Len(all) : ~NeedsEmbedding(all[k], hashes, FALSE)
           /\ DOMAIN after = DOMAIN index'
           /\ \A i \in DOMAIN after :
                /\ after[i].vector = index'[i].vector
                /\ after[i].text_hash = index'[i].text_hash
                /\ after[i].sku \in DOMAIN pg' =>
                     /\ after[i].price = ToFloat(pg'[after[i].sku].price)
                     /\ after[i].stock = pg'[after[i].sku].stock]_vars

\* the embedding sync of the command has started: run() of the
\* PostgresToQdrantPipeline has been called, or one of the clients through
\* which it reads products, calls the provider and writes the index has been
\* opened
SyncStarted ==
  /\ cmd.pc # "none"
  /\ \/ cmd.pc \in {"postgres_enter", "qdrant_enter", "embedder_enter", "body"}
     \/ \E c \in {"postgres", "qdrant", "embedder"} : cmd.clients[c] # "unopened"

\* C30: run-full-sync starts the embedding sync only after the
\* transform-and-load run has returned (its clients are no longer open) and
\* only if it returned success; when it returned failure the command is over
\* and the provider client and the index client were never opened, so no
\* provider call and no index write is made
C30_SyncOnlyAfterSuccessfulLoad ==
  (cmd.pc # "none" /\ cmd.kind = "full") =>
     /\ SyncStarted =>
          /\ cmd.api_result.returned
          /\ cmd.api_result.success
          /\ cmd.clients["extractor"] # "open"
          /\ cmd.clients["loader"] # "open"
     /\ (cmd.api_result.returned /\ ~cmd.api_result.success) =>
          /\ cmd.pc = "done"
          /\ cmd.clients["qdrant"] = "unopened"
          /\ cmd.clients["embedder"] = "unopened"

\* C30 witness: a full sync whose first stage loaded products is in the
\* body of the embedding sync, provider client and index client open
C30_Witness ==
  /\ cmd.pc = "body"
  /\ cmd.kind = "full"
  /\ cmd.load_ran
  /\ cmd.api_result.success
  /\ cmd.clients["embedder"] = "open"
  /\ cmd.clients["qdrant"] = "open"

====
